---------------------------- MODULE Spec2Model ----------------------------
(***************************************************************************)
(* Validator API core of the charon distributed-validator middleware       *)
(* (package core/validatorapi): the key registry built by NewComponent,    *)
(* the Register* wiring setters, and the serving operations                *)
(* SubmitAttestations and BeaconBlockProposal with their partial-signature *)
(* verification and fan-out to the registered partial-sig subscribers.     *)
(*                                                                         *)
(* Two specifications:                                                     *)
(*   SpecKeys  the key registry: NewComponent over every bounded cluster   *)
(*             key material, then the three lookup closures;               *)
(*   Spec      one securely constructed component over a fixed cluster,    *)
(*             its wiring phase and its serving phase.                     *)
(***************************************************************************)
EXTENDS Integers, Sequences, FiniteSets, TLC

(* ------------------------------ bounds -------------------------------- *)

\* BLS public keys are the values 1..MaxKey; 0 is the zero-valued key.
MaxKey == 2

\* Peers of the cluster (share indices are 1-based).
NPeers == 2

\* Partial-sig subscribers registered in the wiring phase.
MaxSubs == 2

\* Attestations in one SubmitAttestations batch.
MaxBatch == 2

\* Slots are 1..MaxSlot.
MaxSlot == 2

\* The beacon node's slots-per-epoch answer is 0..MaxSlotsPerEpoch.
MaxSlotsPerEpoch == 2

\* Unsigned blocks handed back by awaitBlockFunc are 1..MaxBlock.
MaxBlock == 2

\* The handler of RegisterHandler serves the streams 1..MaxStreams.
MaxStreams == 2

\* NewRelayReserver is started for the relays 1..MaxRelays; the backoff of
\* a hook counts up to MaxBackoff failed reservations.
MaxRelays == 2
MaxBackoff == 2

\* Sender.addResult is called at most MaxResults times for a peer.
MaxResults == 8

\* The functions of package tbls are called from the goroutines
\* 1..MaxGoroutines.
MaxGoroutines == 2

Keys == 1..MaxKey
Peers == 1..NPeers
Slots == 1..MaxSlot

\* The aggregation bits a validator client may send, as the set of the
\* positions that are set: none, its own, or its own and another one.
AggregationBits == {{}, {0}, {0, 1}}

\* The target epoch of the attestations.
TargetEpochs == {0}

\* The beacon block roots a validator client may vote for.
BlockRoots == {0, 1}

Blocks == 1..MaxBlock

\* The zero value of a key type (eth2p0.BLSPubKey{}, a nil *bls_sig.PublicKey).
ZeroKey == 0

(* --------------------------- key conversions -------------------------- *)

\* A tbls key (*bls_sig.PublicKey) is the bare point k.  The two wire forms
\* are distinct types: core.PubKey is the 0x-hex string of the 48 bytes,
\* eth2p0.BLSPubKey the 48-byte array.
KeyToCore(k) == <<"core", k>>

KeyToETH2(k) == <<"eth2", k>>

\* Marshalling fails for a key that is no valid compressed point.
KeyMarshals(k) == k > ZeroKey

EmptyMap == [x \in {} |-> ZeroKey]

(* ---------------------------- key registry ---------------------------- *)

\* The registry maps before the loop of NewComponent has run.
NoMaps ==
    [sharesByKey |-> EmptyMap, keysByShare |-> EmptyMap,
     sharesByCoreKey |-> EmptyMap, err |-> "nil"]

\* A loop that leaves the verification share of a root key out.
RegisterPairPartial(m, pubkey, pubshare) ==
    IF m.err # "nil" THEN m
    ELSE IF ~KeyMarshals(pubkey) \/ ~KeyMarshals(pubshare)
         THEN [m EXCEPT !.err = "convert key"]
    ELSE [sharesByKey |-> (KeyToETH2(pubkey) :> KeyToETH2(pubshare)) @@ m.sharesByKey,
          keysByShare |-> (KeyToETH2(pubshare) :> KeyToETH2(pubkey)) @@ m.keysByShare,
          sharesByCoreKey |-> m.sharesByCoreKey,
          err |-> "nil"]

\* A loop that files the root key under itself instead of under its share.
RegisterPairByKey(m, pubkey, pubshare) ==
    IF m.err # "nil" THEN m
    ELSE IF ~KeyMarshals(pubkey) \/ ~KeyMarshals(pubshare)
         THEN [m EXCEPT !.err = "convert key"]
    ELSE [sharesByKey |-> (KeyToETH2(pubkey) :> KeyToETH2(pubshare)) @@ m.sharesByKey,
          keysByShare |-> (KeyToETH2(pubkey) :> KeyToETH2(pubkey)) @@ m.keysByShare,
          sharesByCoreKey |-> (KeyToCore(pubkey) :> pubshare) @@ m.sharesByCoreKey,
          err |-> "nil"]

\* One iteration of `for pubkey, pubshare := range pubShareByKey`.
RegisterPair(m, pubkey, pubshare) ==
    IF m.err # "nil" THEN m
    ELSE IF ~KeyMarshals(pubkey) \/ ~KeyMarshals(pubshare)
         THEN [m EXCEPT !.err = "convert key"]
    ELSE [sharesByKey |-> (KeyToETH2(pubkey) :> KeyToETH2(pubshare)) @@ m.sharesByKey,
          keysByShare |-> (KeyToETH2(pubshare) :> KeyToETH2(pubkey)) @@ m.keysByShare,
          sharesByCoreKey |-> (KeyToCore(pubkey) :> pubshare) @@ m.sharesByCoreKey,
          err |-> "nil"]

\* The whole loop, over the pairs in the order the map iteration yields them.
RECURSIVE CreateMappings(_, _)
CreateMappings(pairs, m) ==
    IF pairs = <<>> THEN m
    ELSE CreateMappings(Tail(pairs), RegisterPair(m, Head(pairs)[1], Head(pairs)[2]))

\* The three lookup closures; each returns [val, err].
GetVerifyShareFunc(byCoreKey, pubkey) ==
    IF pubkey \in DOMAIN byCoreKey
    THEN [val |-> byCoreKey[pubkey], err |-> "nil"]
    ELSE [val |-> ZeroKey, err |-> "unknown public key"]

GetPubShareFunc(byKey, pubkey) ==
    IF pubkey \in DOMAIN byKey
    THEN [val |-> byKey[pubkey], err |-> "nil"]
    ELSE [val |-> KeyToETH2(ZeroKey), err |-> "unknown public key"]

\* A lookup that answers an unknown share with the share itself.
GetPubKeyFuncLenient(byShare, share) ==
    IF share \in DOMAIN byShare
    THEN [val |-> byShare[share], err |-> "nil"]
    ELSE [val |-> share, err |-> "nil"]

GetPubKeyFunc(byShare, share) ==
    IF share \in DOMAIN byShare
    THEN [val |-> byShare[share], err |-> "nil"]
    ELSE [val |-> KeyToETH2(ZeroKey), err |-> "unknown public share"]


(* ------------------------------- state -------------------------------- *)

VARIABLES
    allPubSharesByKey,  \* the cluster's key material: root key -> peer -> share
    phase,              \* "new" | "failed" | "wiring" | "serving"
    shareIdx,           \* Component.shareIdx
    skipVerify,         \* Component.skipVerify
    hasLookups,         \* the three lookup functions of the Component are set (not nil)
    sharesByCoreKey,    \* core.PubKey -> tbls public share (getVerifyShareFunc)
    sharesByKey,        \* eth2 root key -> eth2 share (getPubShareFunc)
    keysByShare,        \* eth2 share -> eth2 root key (getPubKeyFunc)
    inputFuncs,         \* the single callback slots that are set
    parSigDBFuncs,      \* Component.parSigDBFuncs, in registration order
    lookup,             \* the last registry lookup made and its result
    pc,                 \* position of the request in flight
    req,                \* the request's arguments
    attestations,       \* the attestations of the batch read so far
    setsBySlot,         \* SubmitAttestations' setsBySlot
    doneSlots,          \* slots the fan-out loop has finished
    subIdx,             \* index in parSigDBFuncs of the subscriber being called
    pubKey,             \* BeaconBlockProposal's pubKey
    log,                \* the calls made to callbacks and upstream, in order
    ret,                \* what the request returned
    resp,               \* the upstream queries a request made and the value it returned
    streams,            \* p2p: the streams handed to the handler of RegisterHandler
    reserver,           \* p2p: the hook of NewRelayReserver, its context and its relay
    states,             \* p2p: Sender.states, peer -> peerState
    results,            \* p2p: the results added for each peer, in order
    impl,               \* tbls: the package's implementation pointer
    implLock,           \* tbls: the goroutine holding implLock (0: none)
    goroutines          \* tbls: the callers of the package's functions

\* The state of the packages beside the validator API.
p2pVars == <<streams, reserver, states, results>>
tblsVars == <<impl, implLock, goroutines>>

\* What no step of the component writes: the key material it was built from
\* and the state of the other packages.
envVars == <<allPubSharesByKey, p2pVars, tblsVars>>
registryVars == <<shareIdx, skipVerify, hasLookups, sharesByCoreKey, sharesByKey, keysByShare>>
wiringVars == <<inputFuncs, parSigDBFuncs>>
reqVars == <<pc, req, attestations, setsBySlot, doneSlots, subIdx, pubKey, log, ret, resp>>
vars == <<allPubSharesByKey, phase, shareIdx, skipVerify, hasLookups, sharesByCoreKey,
          sharesByKey, keysByShare, inputFuncs, parSigDBFuncs, lookup,
          pc, req, attestations, setsBySlot, doneSlots, subIdx, pubKey, log, ret, resp,
          streams, reserver, states, results, impl, implLock, goroutines>>

(* ------------------------- cluster key material ----------------------- *)

\* Key material with a share that does not marshal (the zero key): the
\* shares of one root key b are such, every other root key is its own share.
UnmarshalableMaterials ==
    UNION {{[k \in R |-> [j \in Peers |-> IF k = b THEN ZeroKey ELSE k]] : b \in R} :
           R \in SUBSET Keys}

\* Every key material of at most MaxKey validators: each root key has one
\* share per peer.
ClusterMaterials ==
    UNION {[R -> [Peers -> Keys]] : R \in SUBSET Keys} \cup UnmarshalableMaterials

\* The orders in which a map over the set S may be iterated.
Orders(S) ==
    {o \in [1..Cardinality(S) -> S] : \A a, b \in DOMAIN o : a # b => o[a] # o[b]}

\* The constructor's pubShareByKey argument, in iteration order o: this
\* peer's share of every root key.
PubShareByKey(material, idx, o) ==
    [n \in DOMAIN o |-> <<o[n], material[o[n]][idx]>>]

NoLookup == [fn |-> "none", arg |-> KeyToETH2(ZeroKey), val |-> KeyToETH2(ZeroKey), err |-> "nil"]

NoSig == [signer |-> ZeroKey, msg |-> <<>>]

NoReq == [op |-> "none", n |-> 0, slot |-> 0, randao |-> NoSig]

NoRet == [err |-> "none", block |-> 0]

\* No upstream query made, no value returned.
NoResp == [args |-> <<>>, calls |-> <<>>, val |-> <<>>]

IdleRequest ==
    /\ pc = "idle"
    /\ req = NoReq
    /\ attestations = <<>>
    /\ setsBySlot = EmptyMap
    /\ doneSlots = {}
    /\ subIdx = 0
    /\ pubKey = KeyToCore(ZeroKey)
    /\ log = <<>>
    /\ ret = NoRet
    /\ resp = NoResp

\* The validator API component as a step of another package leaves it.
componentVars == <<allPubSharesByKey, phase, registryVars, wiringVars, lookup, reqVars>>

(* ---------------------- p2p: RegisterHandler -------------------------- *)

Streams == 1..MaxStreams

\* A stream libp2p hands to the handler: nothing read, nothing deferred.
\* err is the error of io.ReadAll, valid whether the bytes read unmarshal,
\* calls the invocations of handlerFunc and res what it returned, writes the
\* calls of s.Write and wrote the error of the last one, logged the error
\* the handler logged.
OpenStream ==
    [pc |-> "open", deferred |-> FALSE, closed |-> FALSE, err |-> "none", valid |-> FALSE,
     calls |-> 0, res |-> [ok |-> FALSE, err |-> FALSE], marshalled |-> FALSE,
     writes |-> 0, wrote |-> "none", logged |-> "none"]

StreamsIdle == streams = [s \in Streams |-> OpenStream]

\* The errors of reading and writing a stream: none, an error of the relay,
\* a timeout of the network, another error.
ReadErrors == {"nil", "relay", "timeout", "other"}

WriteErrors == {"nil", "relay", "other"}

IsRelayError(err) == err = "relay"

\* errors.As(err, &netErr) && netErr.Timeout()
IsTimeout(err) == err = "timeout"

\* What handlerFunc may return beside the response: ok and an error.
HandlerResults == [ok : BOOLEAN, err : BOOLEAN]

\* The handler returns from the stream st, logged being what it logged on
\* the way: the deferred calls run, s.Close() among them once it is deferred.
Return(st, logged) ==
    [st EXCEPT !.pc = "returned", !.logged = logged, !.closed = st.deferred]

\* The handler is called with the stream s: it sets the read deadline and
\* defers cancel and s.Close, then reads.
StreamHandler(s) ==
    /\ streams[s].pc = "open"
    /\ streams' = [streams EXCEPT ![s].pc = "reading", ![s].deferred = TRUE]
    /\ UNCHANGED <<componentVars, reserver, states, results, tblsVars>>

\* A handler that closes the stream only once the request is read.
ReadAllReturnsThenDefers(s) ==
    /\ streams[s].pc = "reading"
    /\ \E err \in ReadErrors, valid \in BOOLEAN :
         LET st == [streams[s] EXCEPT !.err = err, !.valid = valid]
             early == [st EXCEPT !.deferred = FALSE]
         IN streams' = [streams EXCEPT ![s] =
                IF IsRelayError(err) THEN Return(early, "none")
                ELSE IF IsTimeout(err) THEN Return(early, "LibP2P read timeout")
                ELSE IF err # "nil" THEN Return(early, "LibP2P read request")
                ELSE IF ~valid THEN Return(st, "LibP2P unmarshal request")
                ELSE [st EXCEPT !.pc = "inHandler", !.calls = @ + 1]]
    /\ UNCHANGED <<componentVars, reserver, states, results, tblsVars>>

\* io.ReadAll(s) returns the bytes read and an error; without error the
\* request is unmarshalled and handlerFunc called with it.
ReadAllReturns(s) ==
    /\ streams[s].pc = "reading"
    /\ \E err \in ReadErrors, valid \in BOOLEAN :
         LET st == [streams[s] EXCEPT !.err = err, !.valid = valid]
         IN streams' = [streams EXCEPT ![s] =
                IF IsRelayError(err) THEN Return(st, "none")
                ELSE IF IsTimeout(err) THEN Return(st, "LibP2P read timeout")
                ELSE IF err # "nil" THEN Return(st, "LibP2P read request")
                ELSE IF ~valid THEN Return(st, "LibP2P unmarshal request")
                ELSE [st EXCEPT !.pc = "inHandler", !.calls = @ + 1]]
    /\ UNCHANGED <<componentVars, reserver, states, results, tblsVars>>

\* handlerFunc returns; a response it returned with ok and without error is
\* marshalled and written.
HandlerFuncReturns(s) ==
    /\ streams[s].pc = "inHandler"
    /\ \E res \in HandlerResults, marshalled \in BOOLEAN :
         LET st == [streams[s] EXCEPT !.res = res]
         IN /\ (res.err \/ ~res.ok) => ~marshalled
            /\ streams' = [streams EXCEPT ![s] =
                   IF res.err THEN Return(st, "LibP2P handle stream error")
                   ELSE IF ~res.ok THEN Return(st, "none")
                   ELSE IF ~marshalled THEN Return(st, "LibP2P marshall response")
                   ELSE [st EXCEPT !.pc = "writing", !.marshalled = TRUE, !.writes = @ + 1]]
    /\ UNCHANGED <<componentVars, reserver, states, results, tblsVars>>

\* s.Write(b) returns.
WriteReturns(s) ==
    /\ streams[s].pc = "writing"
    /\ \E err \in WriteErrors :
         LET st == [streams[s] EXCEPT !.wrote = err]
         IN streams' = [streams EXCEPT ![s] =
                IF IsRelayError(err) THEN Return(st, "none")
                ELSE IF err # "nil" THEN Return(st, "LibP2P write response")
                ELSE Return(st, "none")]
    /\ UNCHANGED <<componentVars, reserver, states, results, tblsVars>>

NextStream ==
    \E s \in Streams :
        \/ StreamHandler(s)
        \/ ReadAllReturns(s)
        \/ HandlerFuncReturns(s)
        \/ WriteReturns(s)

(* --------------------- p2p: NewRelayReserver -------------------------- *)

Relays == 1..MaxRelays

\* The hook of one relay at the head of its loop: relay is whether the
\* MutablePeer holds a peer, retries the failed reservations the backoff
\* counts.
NewHook == [pc |-> "lookup", relay |-> FALSE, retries |-> 0]

\* One hook per relay, all run under the context of the application.
ReserverIdle == reserver = [ctx |-> "open", hooks |-> [r \in Relays |-> NewHook]]

\* The application closes the context of its hooks.
CloseContext ==
    /\ reserver.ctx = "open"
    /\ reserver' = [reserver EXCEPT !.ctx = "closed"]
    /\ UNCHANGED <<componentVars, streams, states, results, tblsVars>>

\* The relay r is resolved: its MutablePeer holds a peer from now on.
SetRelay(r) ==
    /\ ~reserver.hooks[r].relay
    /\ reserver' = [reserver EXCEPT !.hooks[r].relay = TRUE]
    /\ UNCHANGED <<componentVars, streams, states, results, tblsVars>>

\* relay.Peer(): without a peer the hook sleeps, with one it reserves.
RelayPeer(r) ==
    /\ reserver.hooks[r].pc = "lookup"
    /\ reserver' = [reserver EXCEPT !.hooks[r].pc =
                        IF reserver.hooks[r].relay THEN "reserving" ELSE "sleeping"]
    /\ UNCHANGED <<componentVars, streams, states, results, tblsVars>>

\* time.Sleep returns; the loop continues.
SleepReturns(r) ==
    /\ reserver.hooks[r].pc = "sleeping"
    /\ reserver' = [reserver EXCEPT !.hooks[r].pc = "lookup"]
    /\ UNCHANGED <<componentVars, streams, states, results, tblsVars>>

\* circuit.Reserve returns: an error is followed by backoff(), a reservation
\* by resetBackoff() and the wait for its refresh.
ReserveReturns(r) ==
    /\ reserver.hooks[r].pc = "reserving"
    /\ \E ok \in BOOLEAN :
         reserver' = [reserver EXCEPT !.hooks[r] =
             IF ok THEN [@ EXCEPT !.pc = "waiting", !.retries = 0]
             ELSE [@ EXCEPT !.pc = "backoff",
                            !.retries = IF @ < MaxBackoff THEN @ + 1 ELSE @]]
    /\ UNCHANGED <<componentVars, streams, states, results, tblsVars>>

\* backoff() returns, after its delay or at once when the context is
\* closed; the loop continues.
BackoffReturns(r) ==
    /\ reserver.hooks[r].pc = "backoff"
    /\ reserver' = [reserver EXCEPT !.hooks[r].pc = "lookup"]
    /\ UNCHANGED <<componentVars, streams, states, results, tblsVars>>

\* select: the refresh timer fires; the loop continues.
RefreshFires(r) ==
    /\ reserver.hooks[r].pc = "waiting"
    /\ reserver' = [reserver EXCEPT !.hooks[r].pc = "lookup"]
    /\ UNCHANGED <<componentVars, streams, states, results, tblsVars>>

\* select: the context is done; the hook returns nil.
ContextDone(r) ==
    /\ reserver.ctx = "closed"
    /\ reserver.hooks[r].pc = "waiting"
    /\ reserver' = [reserver EXCEPT !.hooks[r].pc = "returned"]
    /\ UNCHANGED <<componentVars, streams, states, results, tblsVars>>

\* The steps the hook of r takes by itself.
HookRuns(r) == RelayPeer(r) \/ SleepReturns(r) \/ ReserveReturns(r) \/ BackoffReturns(r)

NextRelay ==
    \/ CloseContext
    \/ \E r \in Relays :
          \/ SetRelay(r)
          \/ RelayPeer(r)
          \/ SleepReturns(r)
          \/ ReserveReturns(r)
          \/ BackoffReturns(r)
          \/ RefreshFires(r)
          \/ ContextDone(r)

(* ------------------------ p2p: Sender.addResult ----------------------- *)

\* The peers results are added for.
SendPeers == {"test", "other"}

\* The results of sending: success (a nil error) or a failure.
SendResults == {"nil", "failure"}

\* The successes in a row that end the failing state.
SenderHysteresis == 3

\* The zero peerState, which a peer without an entry has.
ZeroPeerState == [failing |-> FALSE, successes |-> 0]

\* new(Sender): no peer has an entry, no result was added.
SenderIdle == states = EmptyMap /\ results = [p \in SendPeers |-> <<>>]

\* sender.states.Load(peerID), the zero state when there is no entry.
LoadState(m, peerID) == IF peerID \in DOMAIN m THEN m[peerID] ELSE ZeroPeerState

\* A peerState that recovers at the first success.
NextPeerStateWithoutHysteresis(state, result) ==
    IF result # "nil" THEN [failing |-> TRUE, successes |-> 0]
    ELSE [failing |-> FALSE, successes |-> 0]

\* The peerState after result is added to state: a failure makes it
\* failing; while failing, successes are counted and the third one in a row
\* ends the failing state.
NextPeerState(state, result) ==
    IF result # "nil" THEN [failing |-> TRUE, successes |-> 0]
    ELSE IF ~state.failing THEN state
    ELSE IF state.successes + 1 >= SenderHysteresis THEN [failing |-> FALSE, successes |-> 0]
    ELSE [state EXCEPT !.successes = @ + 1]

\* sender.addResult(ctx, peerID, result).
AddResult(peerID, result) ==
    /\ Len(results[peerID]) < MaxResults
    /\ states' = (peerID :> NextPeerState(LoadState(states, peerID), result)) @@ states
    /\ results' = [results EXCEPT ![peerID] = Append(@, result)]
    /\ UNCHANGED <<componentVars, streams, reserver, tblsVars>>

NextSender == \E peerID \in SendPeers, result \in SendResults : AddResult(peerID, result)

(* --------------------------- tbls: impl ------------------------------- *)

Goroutines == 1..MaxGoroutines

\* The implementations impl may point to: the default and another one.
Implementations == {"Kryptology", "newImpl"}

\* What a read of impl that races with a write may give beside the old and
\* the new value: an interface value that is half of each.
TornImpl == "torn"

\* The package-level functions, each of which calls the method of impl of
\* its own name.
FunctionNames ==
    {"GenerateSecretKey", "SecretToPublicKey", "ThresholdSplit", "RecoverSecret",
     "ThresholdAggregate", "Verify", "Sign", "VerifyAggregate", "Aggregate"}

\* A goroutine that is in no function of the package.
IdleGoroutine == [pc |-> "idle", fn |-> "none", arg |-> "none", seen |-> "none"]

\* var impl Implementation = Kryptology{}; var implLock sync.Mutex.
TblsIdle ==
    /\ impl = "Kryptology"
    /\ implLock = 0
    /\ goroutines = [g \in Goroutines |-> IdleGoroutine]

\* A goroutine is at the assignment of SetImplementation.
Writers == {g \in Goroutines : goroutines[g].pc = "write"}

\* The goroutine g calls SetImplementation(newImpl) and arrives at implLock.Lock().
CallSetImplementation(g, newImpl) ==
    /\ goroutines[g].pc = "idle"
    /\ goroutines' = [goroutines EXCEPT ![g] =
           [pc |-> "lock", fn |-> "SetImplementation", arg |-> newImpl, seen |-> "none"]]
    /\ UNCHANGED <<componentVars, p2pVars, impl, implLock>>

\* implLock.Lock() returns once the mutex is free.
Lock(g) ==
    /\ goroutines[g].pc = "lock"
    /\ implLock = 0
    /\ implLock' = g
    /\ goroutines' = [goroutines EXCEPT ![g].pc = "write"]
    /\ UNCHANGED <<componentVars, p2pVars, impl>>

\* impl = newImpl
WriteImpl(g) ==
    /\ goroutines[g].pc = "write"
    /\ impl' = goroutines[g].arg
    /\ goroutines' = [goroutines EXCEPT ![g].pc = "unlock"]
    /\ UNCHANGED <<componentVars, p2pVars, implLock>>

\* The deferred implLock.Unlock(); SetImplementation returns.
Unlock(g) ==
    /\ goroutines[g].pc = "unlock"
    /\ implLock' = 0
    /\ goroutines' = [goroutines EXCEPT ![g] = IdleGoroutine]
    /\ UNCHANGED <<componentVars, p2pVars, impl>>

\* The goroutine g calls the package-level function fn and arrives at its
\* read of impl; no function takes implLock.
CallFunction(g, fn) ==
    /\ goroutines[g].pc = "idle"
    /\ goroutines' = [goroutines EXCEPT ![g] =
           [pc |-> "read", fn |-> fn, arg |-> "none", seen |-> "none"]]
    /\ UNCHANGED <<componentVars, p2pVars, impl, implLock>>

\* The values a read of impl may give: impl, and while another goroutine is
\* at the assignment also the value being written or a torn one.
ReadableImpls ==
    {impl} \cup (IF Writers = {} THEN {}
                 ELSE {goroutines[w].arg : w \in Writers} \cup {TornImpl})

\* The function reads impl and calls its method.
ReadImpl(g) ==
    /\ goroutines[g].pc = "read"
    /\ \E v \in ReadableImpls :
         goroutines' = [goroutines EXCEPT ![g].pc = "called", ![g].seen = v]
    /\ UNCHANGED <<componentVars, p2pVars, impl, implLock>>

\* The method of the implementation returns, and the function with it.
FunctionReturns(g) ==
    /\ goroutines[g].pc = "called"
    /\ goroutines' = [goroutines EXCEPT ![g] = IdleGoroutine]
    /\ UNCHANGED <<componentVars, p2pVars, impl, implLock>>

NextTbls ==
    \E g \in Goroutines :
        \/ \E newImpl \in Implementations : CallSetImplementation(g, newImpl)
        \/ Lock(g)
        \/ WriteImpl(g)
        \/ Unlock(g)
        \/ \E fn \in FunctionNames : CallFunction(g, fn)
        \/ ReadImpl(g)
        \/ FunctionReturns(g)

\* The other packages before anything ran in them.
OthersIdle == StreamsIdle /\ ReserverIdle /\ SenderIdle /\ TblsIdle

(* ------------------------ the registry on its own --------------------- *)

InitKeys ==
    /\ allPubSharesByKey \in ClusterMaterials
    /\ phase = "new"
    /\ shareIdx \in Peers
    /\ skipVerify = FALSE
    /\ hasLookups = FALSE
    /\ sharesByCoreKey = EmptyMap
    /\ sharesByKey = EmptyMap
    /\ keysByShare = EmptyMap
    /\ inputFuncs = {}
    /\ parSigDBFuncs = <<>>
    /\ lookup = NoLookup
    /\ IdleRequest
    /\ OthersIdle

\* NewComponent(eth2Svc, pubShareByKey, shareIdx).
NewComponent ==
    /\ phase = "new"
    /\ \E o \in Orders(DOMAIN allPubSharesByKey) :
         LET m == CreateMappings(PubShareByKey(allPubSharesByKey, shareIdx, o), NoMaps)
         IN IF m.err # "nil"
            THEN /\ phase' = "failed"
                 /\ UNCHANGED <<hasLookups, sharesByCoreKey, sharesByKey, keysByShare>>
            ELSE /\ phase' = "wiring"
                 /\ hasLookups' = TRUE
                 /\ sharesByCoreKey' = m.sharesByCoreKey
                 /\ sharesByKey' = m.sharesByKey
                 /\ keysByShare' = m.keysByShare
    /\ UNCHANGED <<envVars, shareIdx, skipVerify, wiringVars, lookup, reqVars>>

\* The lookups are pure, so one lookup per constructed registry shows all
\* they do: each run of SpecKeys makes one.

\* c.getVerifyShareFunc(pubkey): the lookup verifyParSig makes.
CallGetVerifyShare(k) ==
    /\ phase \in {"wiring", "serving"}
    /\ lookup = NoLookup
    /\ LET r == GetVerifyShareFunc(sharesByCoreKey, KeyToCore(k))
       IN lookup' = [fn |-> "getVerifyShareFunc", arg |-> KeyToETH2(k),
                     val |-> KeyToETH2(r.val), err |-> r.err]
    /\ UNCHANGED <<envVars, phase, registryVars, wiringVars, reqVars>>

\* c.getPubShareFunc(pubkey): the lookup AttesterDuties and convertValidators make.
CallGetPubShare(k) ==
    /\ phase \in {"wiring", "serving"}
    /\ lookup = NoLookup
    /\ LET r == GetPubShareFunc(sharesByKey, KeyToETH2(k))
       IN lookup' = [fn |-> "getPubShareFunc", arg |-> KeyToETH2(k),
                     val |-> r.val, err |-> r.err]
    /\ UNCHANGED <<envVars, phase, registryVars, wiringVars, reqVars>>

\* c.getPubKeyFunc(share): the lookup ValidatorsByPubKey makes.
CallGetPubKey(k) ==
    /\ phase \in {"wiring", "serving"}
    /\ lookup = NoLookup
    /\ LET r == GetPubKeyFunc(keysByShare, KeyToETH2(k))
       IN lookup' = [fn |-> "getPubKeyFunc", arg |-> KeyToETH2(k),
                     val |-> r.val, err |-> r.err]
    /\ UNCHANGED <<envVars, phase, registryVars, wiringVars, reqVars>>

NextKeys ==
    \/ NewComponent
    \/ \E k \in 0..MaxKey : CallGetVerifyShare(k)
    \/ \E k \in 0..MaxKey : CallGetPubShare(k)
    \/ \E k \in 0..MaxKey : CallGetPubKey(k)

SpecKeys == InitKeys /\ [][NextKeys]_vars

(* --------------------- signing roots and signatures ------------------- *)

\* HashTreeRoot of an attestation's data: one root per (slot, index, beacon
\* block root, target).
AttDataRoot(att) == <<"att", att.slot, att.index, att.root, att.target>>

\* merkleEpoch(epoch).HashTreeRoot(): the root of the epoch value itself.
MerkleEpochRoot(epoch) == <<"epoch", epoch>>

\* The domain the beacon node answers for a duty type at an epoch.
Domain(typ, epoch) == <<"domain", typ, epoch>>

\* prepSigningData: the signing root wrapped with the duty's domain.
PrepSigningData(typ, epoch, sigRoot) == <<sigRoot, Domain(typ, epoch)>>

\* A signature names the share that made it and the message it signs; a
\* signature whose bytes are no valid point has the zero signer.
BadSig == [signer |-> ZeroKey, msg |-> <<"garbage">>]

\* tblsconv.SigFromETH2
SigFromETH2Fails(sig) == sig.signer = ZeroKey

\* tbls.Verify(pubshare, msg, sig)
TblsVerify(pubshare, msg, sig) == sig.signer = pubshare /\ sig.msg = msg

\* A verifyParSig that verifies whatever skipVerify says.
VerifyParSigAlways(skip, byCoreKey, typ, epoch, pubkey, sigRoot, sig, domainOk) ==
    IF ~domainOk THEN "upstream error"
    ELSE IF SigFromETH2Fails(sig) THEN "convert signature"
    ELSE LET pubshare == GetVerifyShareFunc(byCoreKey, pubkey)
         IN IF pubshare.err # "nil" THEN pubshare.err
            ELSE IF ~TblsVerify(pubshare.val, PrepSigningData(typ, epoch, sigRoot), sig)
                 THEN "invalid signature"
            ELSE "nil"

\* A verifyParSig that, told to skip, still looks the key up.
VerifyParSigKnownKeysOnly(skip, byCoreKey, typ, epoch, pubkey, sigRoot, sig, domainOk) ==
    LET pubshare == GetVerifyShareFunc(byCoreKey, pubkey)
    IN IF skip THEN pubshare.err
       ELSE IF ~domainOk THEN "upstream error"
       ELSE IF SigFromETH2Fails(sig) THEN "convert signature"
       ELSE IF pubshare.err # "nil" THEN pubshare.err
       ELSE IF ~TblsVerify(pubshare.val, PrepSigningData(typ, epoch, sigRoot), sig)
            THEN "invalid signature"
       ELSE "nil"

\* A verifyParSig that drops the outcome of the BLS check.
VerifyParSigUnchecked(skip, byCoreKey, typ, epoch, pubkey, sigRoot, sig, domainOk) ==
    IF skip THEN "nil"
    ELSE IF ~domainOk THEN "upstream error"
    ELSE IF SigFromETH2Fails(sig) THEN "convert signature"
    ELSE LET pubshare == GetVerifyShareFunc(byCoreKey, pubkey)
         IN IF pubshare.err # "nil" THEN pubshare.err ELSE "nil"

\* verifyParSig; domainOk is whether the beacon node answers the domain.
\* Returns the error, "nil" for none.
VerifyParSig(skip, byCoreKey, typ, epoch, pubkey, sigRoot, sig, domainOk) ==
    IF skip THEN "nil"
    ELSE IF ~domainOk THEN "upstream error"
    ELSE IF SigFromETH2Fails(sig) THEN "convert signature"
    ELSE LET pubshare == GetVerifyShareFunc(byCoreKey, pubkey)
         IN IF pubshare.err # "nil" THEN pubshare.err
            ELSE IF ~TblsVerify(pubshare.val, PrepSigningData(typ, epoch, sigRoot), sig)
                 THEN "invalid signature"
            ELSE "nil"

\* The calls verifyParSig makes, in order.
VerifyParSigCalls(skip, byCoreKey, typ, epoch, pubkey, sigRoot, sig, domainOk) ==
    IF skip THEN <<>>
    ELSE IF ~domainOk THEN <<"prepSigningData">>
    ELSE IF SigFromETH2Fails(sig) THEN <<"prepSigningData", "SigFromETH2">>
    ELSE IF GetVerifyShareFunc(byCoreKey, pubkey).err # "nil"
         THEN <<"prepSigningData", "SigFromETH2", "getVerifyShareFunc">>
    ELSE <<"prepSigningData", "SigFromETH2", "getVerifyShareFunc", "tbls.Verify">>

(* ------------------------- partial signed data ------------------------ *)

EncodeAttestationParSignedData(att, idx) ==
    [kind |-> "attestation", slot |-> att.slot, index |-> att.index, root |-> att.root,
     target |-> att.target, bits |-> att.bits, sig |-> att.sig, shareIdx |-> idx]

EncodeRandaoParSignedData(randao, idx) ==
    [kind |-> "randao", slot |-> 0, index |-> 0, root |-> 0,
     target |-> 0, bits |-> {}, sig |-> randao, shareIdx |-> idx]

NewAttesterDuty(slot) == <<"attester", slot>>

NewRandaoDuty(slot) == <<"randao", slot>>

NoDuty == <<"none", 0>>

(* ------------------------------ call log ------------------------------ *)

\* One call made by the component: st is "pending" while the callee runs,
\* then "ok" or "err"; idx is the batch position of the attestation the call
\* is made for (0: none), sub the subscriber called (0: none), key the key
\* the callee answered (the zero key: none).
Event(op, st, idx, sub, duty, set) ==
    [op |-> op, st |-> st, idx |-> idx, sub |-> sub, duty |-> duty, set |-> set,
     key |-> KeyToCore(ZeroKey)]

\* A call that answered the key k.
Answered(e, k) == [e EXCEPT !.key = k]

\* The log with its last (pending) call returned.
Returned(l, st) == [l EXCEPT ![Len(l)].st = st]

\* The log with its last (pending) call returned without error, answering k.
ReturnedKey(l, k) == [l EXCEPT ![Len(l)] = Answered([@ EXCEPT !.st = "ok"], k)]

\* dbFunc(ctx, duty, set) entered for the subscriber at position n.
StoreCall(funcs, n, duty, set) == Event("store", "pending", 0, funcs[n], duty, set)

(* -------------------------- request inputs ---------------------------- *)

\* The cluster the component of Spec is built for: two validators with the
\* root keys 1 and 2, the share of root key k under peer j being the key
\* 2*j + k, so that every share is another key and no share is a root key.
FixtureRoots == {1, 2}

FixtureCluster == [k \in FixtureRoots |-> [j \in Peers |-> 2 * j + k]]

FixtureShareIdx == 1

\* The shares a validator client may sign with: this peer's share of each
\* validator, and (a mis-wired client) the share another peer holds of one.
Signers ==
    {FixtureCluster[k][FixtureShareIdx] : k \in FixtureRoots}
        \cup {FixtureCluster[1][FixtureShareIdx + 1]}

\* The signatures a validator client may send with an attestation: made by
\* one of the shares over the attestation's root under the attester domain
\* of its target epoch, made for another epoch, or bytes that are no
\* signature.
AttSigs(slot, index, root, target) ==
    {[signer |-> s,
      msg |-> PrepSigningData("attester", target, <<"att", slot, index, root, target>>)] :
        s \in Signers}
    \cup {[signer |-> FixtureCluster[1][FixtureShareIdx],
           msg |-> PrepSigningData("attester", target + 1,
                                   <<"att", slot, index, root, target>>)]}
    \cup {BadSig}

Attestations ==
    UNION {{[slot |-> sl, index |-> 0, root |-> r, target |-> t, bits |-> b, sig |-> sg] :
                sg \in AttSigs(sl, 0, r, t)} :
           sl \in Slots, r \in BlockRoots, t \in TargetEpochs, b \in AggregationBits}

\* What is sent to a component that skips verification: it checks no
\* signature, so the attestations of one slot with bytes that are no
\* signature show all it does.
AttestationsOf(skip) ==
    IF skip
    THEN {a \in Attestations : a.slot = 1 /\ a.root = 0 /\ a.sig = BadSig}
    ELSE Attestations

\* Which of hashing, the domain fetch and the encoding succeed in one
\* iteration: at most one of them fails, the steps after a failure not
\* being reached.
StepOutcomes ==
    {ok \in [{"hash", "domain", "encode"} -> BOOLEAN] :
        Cardinality({x \in DOMAIN ok : ~ok[x]}) <= 1}

\* The randao reveals a validator client may send: made by any share over
\* the root of any epoch under the randao domain, or bytes that are no
\* signature.
RandaoSigs ==
    {[signer |-> s, msg |-> PrepSigningData("randao", e, MerkleEpochRoot(e))] :
        s \in Signers, e \in 0..MaxSlot} \cup {BadSig}

\* What pubKeyByAttFunc and awaitProposerFunc may answer: an error, or the
\* core key of a validator of the cluster, or a key the registry does not
\* know: the zero key, or this peer's share of a validator.
PubKeyAnswers ==
    {[err |-> TRUE, key |-> KeyToCore(ZeroKey)]}
        \cup {[err |-> FALSE, key |-> KeyToCore(k)] :
                 k \in FixtureRoots \cup {ZeroKey, FixtureCluster[1][FixtureShareIdx]}}

\* What awaitBlockFunc may answer: an error, or a proposer key and a block.
BlockAnswers ==
    {[err |-> TRUE, key |-> KeyToCore(ZeroKey), block |-> 0]}
        \cup {[err |-> FALSE, key |-> KeyToCore(k), block |-> b] :
                 k \in FixtureRoots \cup {ZeroKey}, b \in Blocks}

\* What eth2Cl.SlotsPerEpoch may answer.
SlotsPerEpochAnswers ==
    {[err |-> TRUE, val |-> 0]}
        \cup {[err |-> FALSE, val |-> v] : v \in 0..MaxSlotsPerEpoch}

(* ------------------- SubmitAttestations: the batch loop --------------- *)

\* The set of slot in setsBySlot, a new one when the slot has none.
SetOf(sets, slot) == IF slot \in DOMAIN sets THEN sets[slot] ELSE EmptyMap

\* A setsBySlot that keeps one entry per slot.
AddToSetAlone(sets, slot, pubkey, signedData) ==
    (slot :> (pubkey :> signedData)) @@ sets

\* A set that keeps the entry a key already has.
AddToSetKeepingFirst(sets, slot, pubkey, signedData) ==
    (slot :> (SetOf(sets, slot) @@ (pubkey :> signedData))) @@ sets

\* set[pubkey] = signedData, in the set of the attestation's slot.
AddToSet(sets, slot, pubkey, signedData) ==
    (slot :> ((pubkey :> signedData) @@ SetOf(sets, slot))) @@ sets

\* A bit check that lets an attestation without any bit pass.
AtMostOneBit(bits) == Cardinality(bits) <= 1

\* len(att.AggregationBits.BitIndices()) == 1: exactly one bit is set.
ExactlyOneBit(bits) == Cardinality(bits) = 1

\* An iteration that goes on after a failed verification.
AttestationIterationUnverified(skip, byCoreKey, idx, sets, n, att, answer, hashOk, domainOk, encodeOk) ==
    LET duty == NewAttesterDuty(att.slot)
        asked == Answered(Event("pubKeyByAtt", IF answer.err THEN "err" ELSE "ok",
                                n, 0, duty, EmptyMap), answer.key)
        verr == VerifyParSig(skip, byCoreKey, "attester", att.target, answer.key,
                             AttDataRoot(att), att.sig, domainOk)
        verified == Event("verifyParSig", IF verr = "nil" THEN "ok" ELSE "err",
                          n, 0, duty, EmptyMap)
    IN IF ~ExactlyOneBit(att.bits)
       THEN [err |-> "unexpected number of aggregation bits", calls |-> <<>>, sets |-> sets]
       ELSE IF answer.err
       THEN [err |-> "pubKeyByAtt error", calls |-> <<asked>>, sets |-> sets]
       ELSE IF ~hashOk
       THEN [err |-> "hash attestation data", calls |-> <<asked>>, sets |-> sets]
       ELSE IF ~encodeOk
       THEN [err |-> "encode", calls |-> <<asked, verified>>, sets |-> sets]
       ELSE [err |-> "nil", calls |-> <<asked, verified>>,
             sets |-> AddToSet(sets, att.slot, answer.key,
                               EncodeAttestationParSignedData(att, idx))]

\* One iteration of the loop over the batch, for the attestation at position
\* n: the calls it makes, the error it returns ("nil": none) and setsBySlot
\* after it.  answer is what pubKeyByAttFunc answers; hashOk, domainOk and
\* encodeOk are whether hashing, the domain fetch and the encoding succeed.
AttestationIteration(skip, byCoreKey, idx, sets, n, att, answer, hashOk, domainOk, encodeOk) ==
    LET duty == NewAttesterDuty(att.slot)
        asked == Answered(Event("pubKeyByAtt", IF answer.err THEN "err" ELSE "ok",
                                n, 0, duty, EmptyMap), answer.key)
        verr == VerifyParSig(skip, byCoreKey, "attester", att.target, answer.key,
                             AttDataRoot(att), att.sig, domainOk)
        verified == Event("verifyParSig", IF verr = "nil" THEN "ok" ELSE "err",
                          n, 0, duty, EmptyMap)
    IN IF ~ExactlyOneBit(att.bits)
       THEN [err |-> "unexpected number of aggregation bits", calls |-> <<>>, sets |-> sets]
       ELSE IF answer.err
       THEN [err |-> "pubKeyByAtt error", calls |-> <<asked>>, sets |-> sets]
       ELSE IF ~hashOk
       THEN [err |-> "hash attestation data", calls |-> <<asked>>, sets |-> sets]
       ELSE IF verr # "nil"
       THEN [err |-> verr, calls |-> <<asked, verified>>, sets |-> sets]
       ELSE IF ~encodeOk
       THEN [err |-> "encode", calls |-> <<asked, verified>>, sets |-> sets]
       ELSE [err |-> "nil", calls |-> <<asked, verified>>,
             sets |-> AddToSet(sets, att.slot, answer.key,
                               EncodeAttestationParSignedData(att, idx))]

(* ------------------- BeaconBlockProposal: the randao ------------------ *)

\* A verifyRandaoParSig whose caller goes on after a failed verification.
VerifyRandaoParSigUnchecked(skip, byCoreKey, key, slot, randao, answer, hashOk, domainOk) ==
    LET duty == NewRandaoDuty(slot)
        asked == Event("slotsPerEpoch", IF answer.err THEN "err" ELSE "ok",
                       0, 0, duty, EmptyMap)
        epoch == slot \div answer.val
        verr == VerifyParSig(skip, byCoreKey, "randao", epoch, key,
                             MerkleEpochRoot(epoch), randao, domainOk)
        verified == Event("verifyParSig", IF verr = "nil" THEN "ok" ELSE "err",
                          0, 0, duty, EmptyMap)
    IN IF answer.err
       THEN [err |-> "getting slots per epoch", calls |-> <<asked>>]
       ELSE IF answer.val = 0
       THEN [err |-> "panic: integer divide by zero", calls |-> <<asked>>]
       ELSE IF ~hashOk
       THEN [err |-> "hash default epoch", calls |-> <<asked>>]
       ELSE [err |-> "nil", calls |-> <<asked, verified>>]

\* verifyRandaoParSig: the calls it makes and the error it returns.  answer
\* is what eth2Cl.SlotsPerEpoch answers; a zero answer makes the division
\* panic.
VerifyRandaoParSig(skip, byCoreKey, key, slot, randao, answer, hashOk, domainOk) ==
    LET duty == NewRandaoDuty(slot)
        asked == Event("slotsPerEpoch", IF answer.err THEN "err" ELSE "ok",
                       0, 0, duty, EmptyMap)
        epoch == slot \div answer.val
        verr == VerifyParSig(skip, byCoreKey, "randao", epoch, key,
                             MerkleEpochRoot(epoch), randao, domainOk)
        verified == Event("verifyParSig", IF verr = "nil" THEN "ok" ELSE "err",
                          0, 0, duty, EmptyMap)
    IN IF answer.err
       THEN [err |-> "getting slots per epoch", calls |-> <<asked>>]
       ELSE IF answer.val = 0
       THEN [err |-> "panic: integer divide by zero", calls |-> <<asked>>]
       ELSE IF ~hashOk
       THEN [err |-> "hash default epoch", calls |-> <<asked>>]
       ELSE [err |-> verr, calls |-> <<asked, verified>>]

\* sumbitRandaoDuty's parsigSet.
RandaoParSigSet(key, randao, idx) == key :> EncodeRandaoParSignedData(randao, idx)

\* c.awaitBlockFunc(ctx, slot) entered.
AwaitBlockCall(slot) == Event("awaitBlock", "pending", 0, 0, <<"proposer", slot>>, EmptyMap)

(* --------------------- queries: key translation ----------------------- *)

\* Calling a lookup function of a component that has none (the insecure
\* constructor sets none) is a call of a nil function value.
NilFuncPanic == "panic: nil pointer dereference"

\* c.getPubShareFunc(pubkey) and c.getPubKeyFunc(share) as the methods call them.
CallPubShareFunc(has, byKey, pubkey) ==
    IF has THEN GetPubShareFunc(byKey, pubkey)
    ELSE [val |-> KeyToETH2(ZeroKey), err |-> NilFuncPanic]

CallPubKeyFunc(has, byShare, share) ==
    IF has THEN GetPubKeyFunc(byShare, share)
    ELSE [val |-> KeyToETH2(ZeroKey), err |-> NilFuncPanic]

\* The keys the beacon node may name in an answer: the root keys of the
\* cluster and a key that is none.
UpstreamKeys == {KeyToETH2(k) : k \in FixtureRoots \cup {ZeroKey}}

\* The keys a validator client may ask about: this peer's shares, the share
\* another peer holds, and a key that is no share.
ClientKeys ==
    {KeyToETH2(k) : k \in Signers \cup {ZeroKey}}

ValidatorIndices == {1, 2}

\* The index lists and epochs of a request.
IndexLists == {<<>>, <<1>>, <<2, 1>>}

Epochs == {0, 1}

\* The sequences over S of at most two elements.
ShortSeqs(S) == {<<>>} \cup {<<a>> : a \in S} \cup {<<a, b>> : a \in S, b \in S}

\* An attester duty: its PubKey and the rest of it.
AttesterDutyValues == [pubkey : UpstreamKeys, vidx : ValidatorIndices]

\* What eth2Cl.AttesterDuties may answer.
DutiesAnswers ==
    {[err |-> TRUE, val |-> <<>>]}
        \cup {[err |-> FALSE, val |-> d] : d \in ShortSeqs(AttesterDutyValues)}

\* A validator: its PublicKey and the rest of it.
ValidatorValues == [pubkey : UpstreamKeys, status : {"active", "exited"}]

\* What eth2Cl.Validators and eth2Cl.ValidatorsByPubKey may answer.
ValidatorsAnswers ==
    {[err |-> TRUE, val |-> EmptyMap]}
        \cup {[err |-> FALSE, val |-> m] :
                 m \in UNION {[I -> ValidatorValues] : I \in SUBSET ValidatorIndices}}

\* An upstream query with its arguments and the answer it got.
UpstreamCall(op, args, answer) == [op |-> op, args |-> args, answer |-> answer]

\* A loop that leaves a key it cannot translate as it is.
RECURSIVE ReplaceKnownDutyKeys(_, _, _, _)
ReplaceKnownDutyKeys(has, byKey, duties, i) ==
    IF i > Len(duties) THEN [err |-> "nil", val |-> duties]
    ELSE LET pubshare == CallPubShareFunc(has, byKey, duties[i].pubkey)
         IN IF pubshare.err # "nil" THEN ReplaceKnownDutyKeys(has, byKey, duties, i + 1)
            ELSE ReplaceKnownDutyKeys(has, byKey, [duties EXCEPT ![i].pubkey = pubshare.val], i + 1)

\* The loop of AttesterDuties from position i on: every PubKey is replaced
\* by its share, the first error ending the loop.
RECURSIVE ReplaceDutyKeys(_, _, _, _)
ReplaceDutyKeys(has, byKey, duties, i) ==
    IF i > Len(duties) THEN [err |-> "nil", val |-> duties]
    ELSE LET pubshare == CallPubShareFunc(has, byKey, duties[i].pubkey)
         IN IF pubshare.err # "nil" THEN [err |-> pubshare.err, val |-> <<>>]
            ELSE ReplaceDutyKeys(has, byKey, [duties EXCEPT ![i].pubkey = pubshare.val], i + 1)

\* AttesterDuties(ctx, epoch, validatorIndices), answer being what the
\* beacon node answers.
AttesterDutiesResult(has, byKey, epoch, validatorIndices, answer) ==
    LET call == UpstreamCall("AttesterDuties", <<epoch, validatorIndices>>, answer)
        r == ReplaceDutyKeys(has, byKey, answer.val, 1)
    IN IF answer.err
       THEN [err |-> "upstream error", calls |-> <<call>>, val |-> <<>>]
       ELSE [err |-> r.err, calls |-> <<call>>, val |-> r.val]

\* A loop that keeps only the validator it converted last.
RECURSIVE ConvertValidatorsKeepingLast(_, _, _, _, _)
ConvertValidatorsKeepingLast(has, byKey, vals, o, resp0) ==
    IF o = <<>> THEN [err |-> "nil", val |-> resp0]
    ELSE LET vIdx == Head(o)
             pubshare == CallPubShareFunc(has, byKey, vals[vIdx].pubkey)
         IN IF pubshare.err # "nil" THEN [err |-> pubshare.err, val |-> EmptyMap]
            ELSE ConvertValidatorsKeepingLast(has, byKey, vals, Tail(o),
                     vIdx :> [vals[vIdx] EXCEPT !.pubkey = pubshare.val])

\* convertValidators: the loop over vals in the order o of its indices,
\* resp being the map built so far.
RECURSIVE ConvertValidatorsFrom(_, _, _, _, _)
ConvertValidatorsFrom(has, byKey, vals, o, resp0) ==
    IF o = <<>> THEN [err |-> "nil", val |-> resp0]
    ELSE LET vIdx == Head(o)
             pubshare == CallPubShareFunc(has, byKey, vals[vIdx].pubkey)
         IN IF pubshare.err # "nil" THEN [err |-> pubshare.err, val |-> EmptyMap]
            ELSE ConvertValidatorsFrom(has, byKey, vals, Tail(o),
                     (vIdx :> [vals[vIdx] EXCEPT !.pubkey = pubshare.val]) @@ resp0)

ConvertValidators(has, byKey, vals, o) == ConvertValidatorsFrom(has, byKey, vals, o, EmptyMap)

\* Validators(ctx, stateID, validatorIndices).
ValidatorsResult(has, byKey, stateID, validatorIndices, answer, o) ==
    LET call == UpstreamCall("Validators", <<stateID, validatorIndices>>, answer)
        r == ConvertValidators(has, byKey, answer.val, o)
    IN IF answer.err
       THEN [err |-> "upstream error", calls |-> <<call>>, val |-> EmptyMap]
       ELSE [err |-> r.err, calls |-> <<call>>, val |-> r.val]

\* A loop that leaves out the shares it cannot translate.
RECURSIVE SharesToKnownKeys(_, _, _, _, _)
SharesToKnownKeys(has, byShare, pubshares, i, pubkeys) ==
    IF i > Len(pubshares) THEN [err |-> "nil", val |-> pubkeys]
    ELSE LET pubkey == CallPubKeyFunc(has, byShare, pubshares[i])
         IN IF pubkey.err # "nil"
            THEN SharesToKnownKeys(has, byShare, pubshares, i + 1, pubkeys)
            ELSE SharesToKnownKeys(has, byShare, pubshares, i + 1, Append(pubkeys, pubkey.val))

\* The first loop of ValidatorsByPubKey from position i on: pubkeys holds
\* the root keys of the shares before i.
RECURSIVE SharesToKeys(_, _, _, _, _)
SharesToKeys(has, byShare, pubshares, i, pubkeys) ==
    IF i > Len(pubshares) THEN [err |-> "nil", val |-> pubkeys]
    ELSE LET pubkey == CallPubKeyFunc(has, byShare, pubshares[i])
         IN IF pubkey.err # "nil" THEN [err |-> pubkey.err, val |-> <<>>]
            ELSE SharesToKeys(has, byShare, pubshares, i + 1, Append(pubkeys, pubkey.val))

\* ValidatorsByPubKey(ctx, stateID, pubshares).
ValidatorsByPubKeyResult(has, byKey, byShare, stateID, pubshares, answer, o) ==
    LET keys == SharesToKeys(has, byShare, pubshares, 1, <<>>)
        call == UpstreamCall("ValidatorsByPubKey", <<stateID, keys.val>>, answer)
        r == ConvertValidators(has, byKey, answer.val, o)
    IN IF keys.err # "nil"
       THEN [err |-> keys.err, calls |-> <<>>, val |-> EmptyMap]
       ELSE IF answer.err
       THEN [err |-> "upstream error", calls |-> <<call>>, val |-> EmptyMap]
       ELSE [err |-> r.err, calls |-> <<call>>, val |-> r.val]

(* ------------------------------- wiring ------------------------------- *)

InputFuncNames == {"awaitAttFunc", "pubKeyByAttFunc", "awaitProposerFunc", "awaitBlockFunc"}

Init ==
    /\ allPubSharesByKey = FixtureCluster
    /\ phase = "wiring"
    /\ shareIdx = FixtureShareIdx
    /\ skipVerify = FALSE
    /\ hasLookups = TRUE
    /\ \E o \in Orders(FixtureRoots) :
         LET m == CreateMappings(PubShareByKey(FixtureCluster, FixtureShareIdx, o), NoMaps)
         IN /\ sharesByCoreKey = m.sharesByCoreKey
            /\ sharesByKey = m.sharesByKey
            /\ keysByShare = m.keysByShare
    /\ inputFuncs = {}
    /\ parSigDBFuncs = <<>>
    /\ lookup = NoLookup
    /\ IdleRequest
    /\ OthersIdle

RegisterInput(name) ==
    /\ phase = "wiring"
    /\ inputFuncs' = inputFuncs \cup {name}
    /\ UNCHANGED <<envVars, phase, registryVars, parSigDBFuncs, lookup, reqVars>>

RegisterAwaitAttestation == RegisterInput("awaitAttFunc")

RegisterPubKeyByAttestation == RegisterInput("pubKeyByAttFunc")

RegisterAwaitProposer == RegisterInput("awaitProposerFunc")

RegisterAwaitBeaconBlock == RegisterInput("awaitBlockFunc")

\* A registration that replaces the subscribers by the new one.
RegisterParSigDBReplacing ==
    /\ phase = "wiring"
    /\ Len(parSigDBFuncs) < MaxSubs
    /\ parSigDBFuncs' = <<Len(parSigDBFuncs) + 1>>
    /\ UNCHANGED <<envVars, phase, registryVars, inputFuncs, lookup, reqVars>>

\* RegisterParSigDB(fn): subscribers are named by the order of their
\* registration, fn being the next one.
RegisterParSigDB ==
    /\ phase = "wiring"
    /\ Len(parSigDBFuncs) < MaxSubs
    /\ parSigDBFuncs' = Append(parSigDBFuncs, Len(parSigDBFuncs) + 1)
    /\ UNCHANGED <<envVars, phase, registryVars, inputFuncs, lookup, reqVars>>

\* The wiring phase ends once every input is registered; serving begins.
StartServing ==
    /\ phase = "wiring"
    /\ inputFuncs = InputFuncNames
    /\ phase' = "serving"
    /\ UNCHANGED <<envVars, registryVars, wiringVars, lookup, reqVars>>

(* ------------------------- SubmitAttestations ------------------------- *)

Fail(l, e) ==
    /\ pc' = "done"
    /\ ret' = [err |-> e, block |-> 0]
    /\ log' = l

\* The head of `for slot, set := range setsBySlot`, the slots of done
\* visited and l the calls made so far: the loop ends, or it takes one of
\* the remaining slots, in no particular order, and calls the first
\* subscriber with its set.  Without subscribers the inner loop makes no call.
RangeSetsBySlot(sets, done, l) ==
    IF DOMAIN sets \ done = {} \/ parSigDBFuncs = <<>>
    THEN /\ pc' = "done"
         /\ ret' = [err |-> "nil", block |-> 0]
         /\ log' = l
         /\ doneSlots' = DOMAIN sets
         /\ subIdx' = 0
    ELSE \E slot \in DOMAIN sets \ done :
         /\ pc' = "inStore"
         /\ log' = Append(l, StoreCall(parSigDBFuncs, 1, NewAttesterDuty(slot), sets[slot]))
         /\ doneSlots' = done
         /\ subIdx' = 1
         /\ ret' = ret

\* SubmitAttestations(ctx, attestations) is called with a batch of n
\* attestations; the loop reads them one at a time.
StartSubmitAttestations(n) ==
    /\ phase = "serving"
    /\ pc = "idle"
    /\ req' = [NoReq EXCEPT !.op = "SubmitAttestations", !.n = n]
    /\ IF n = 0
       THEN RangeSetsBySlot(EmptyMap, {}, <<>>)
       ELSE /\ pc' = "atts"
            /\ UNCHANGED <<doneSlots, subIdx, log, ret>>
    /\ UNCHANGED <<envVars, phase, registryVars, wiringVars, lookup, resp,
                   attestations, setsBySlot, pubKey>>

\* One iteration of `for _, att := range attestations`; after the last one
\* the fan-out begins.
ProcessAttestation ==
    /\ pc = "atts"
    /\ Len(attestations) < req.n
    /\ \E att \in AttestationsOf(skipVerify), answer \in PubKeyAnswers, ok \in StepOutcomes :
         LET n == Len(attestations) + 1
             r == AttestationIteration(skipVerify, sharesByCoreKey, shareIdx, setsBySlot,
                                       n, att, answer, ok["hash"], ok["domain"], ok["encode"])
         IN /\ attestations' = Append(attestations, att)
            /\ setsBySlot' = r.sets
            /\ IF r.err # "nil"
               THEN Fail(log \o r.calls, r.err) /\ UNCHANGED <<doneSlots, subIdx>>
               ELSE IF n = req.n
               THEN RangeSetsBySlot(r.sets, {}, log \o r.calls)
               ELSE /\ log' = log \o r.calls
                    /\ UNCHANGED <<pc, ret, doneSlots, subIdx>>
    /\ UNCHANGED <<envVars, phase, registryVars, wiringVars, lookup, resp, req, pubKey>>

\* A fan-out that goes on to the next subscriber after an error.
AttStoreReturnIgnoringError ==
    /\ pc = "inStore"
    /\ req.op = "SubmitAttestations"
    /\ \E ok \in BOOLEAN :
         LET call == log[Len(log)]
             l == Returned(log, IF ok THEN "ok" ELSE "err")
         IN IF subIdx < Len(parSigDBFuncs)
            THEN /\ log' = Append(l, StoreCall(parSigDBFuncs, subIdx + 1, call.duty, call.set))
                 /\ subIdx' = subIdx + 1
                 /\ UNCHANGED <<pc, ret, doneSlots>>
            ELSE RangeSetsBySlot(setsBySlot, doneSlots \cup {call.duty[2]}, l)
    /\ UNCHANGED <<envVars, phase, registryVars, wiringVars, lookup, resp, req,
                   attestations, setsBySlot, pubKey>>

\* A fan-out that unregisters the subscriber that returned an error.
AttStoreReturnUnregistering ==
    /\ pc = "inStore"
    /\ req.op = "SubmitAttestations"
    /\ \E ok \in BOOLEAN :
         LET call == log[Len(log)]
         IN IF ~ok
            THEN /\ Fail(Returned(log, "err"), "store error")
                 /\ parSigDBFuncs' = SubSeq(parSigDBFuncs, 1, subIdx - 1)
                 /\ UNCHANGED <<doneSlots, subIdx>>
            ELSE /\ parSigDBFuncs' = parSigDBFuncs
                 /\ IF subIdx < Len(parSigDBFuncs)
                    THEN /\ log' = Append(Returned(log, "ok"),
                                          StoreCall(parSigDBFuncs, subIdx + 1, call.duty, call.set))
                         /\ subIdx' = subIdx + 1
                         /\ UNCHANGED <<pc, ret, doneSlots>>
                    ELSE RangeSetsBySlot(setsBySlot, doneSlots \cup {call.duty[2]},
                                         Returned(log, "ok"))
    /\ UNCHANGED <<envVars, phase, registryVars, inputFuncs, lookup, resp, req,
                   attestations, setsBySlot, pubKey>>

\* The subscriber called for an attestation set returns: on an error the
\* request returns it, otherwise the next subscriber is called with the same
\* set, and after the last one the outer loop goes on.
AttStoreReturn ==
    /\ pc = "inStore"
    /\ req.op = "SubmitAttestations"
    /\ \E ok \in BOOLEAN :
         LET call == log[Len(log)]
         IN IF ~ok
            THEN Fail(Returned(log, "err"), "store error") /\ UNCHANGED <<doneSlots, subIdx>>
            ELSE IF subIdx < Len(parSigDBFuncs)
            THEN /\ log' = Append(Returned(log, "ok"),
                                  StoreCall(parSigDBFuncs, subIdx + 1, call.duty, call.set))
                 /\ subIdx' = subIdx + 1
                 /\ UNCHANGED <<pc, ret, doneSlots>>
            ELSE RangeSetsBySlot(setsBySlot, doneSlots \cup {call.duty[2]},
                                 Returned(log, "ok"))
    /\ UNCHANGED <<envVars, phase, registryVars, wiringVars, lookup, resp, req,
                   attestations, setsBySlot, pubKey>>

(* ------------------------- BeaconBlockProposal ------------------------ *)

\* BeaconBlockProposal(ctx, slot, randao, _) is called and enters
\* awaitProposerFunc.
StartBeaconBlockProposal(slot, randao) ==
    /\ phase = "serving"
    /\ pc = "idle"
    /\ req' = [NoReq EXCEPT !.op = "BeaconBlockProposal", !.slot = slot, !.randao = randao]
    /\ pc' = "inAwaitProposer"
    /\ log' = <<Event("awaitProposer", "pending", 0, 0, <<"proposer", slot>>, EmptyMap)>>
    /\ UNCHANGED <<envVars, phase, registryVars, wiringVars, lookup, resp,
                   attestations, setsBySlot, doneSlots, subIdx, pubKey, ret>>

\* An awaitProposerFunc whose first error is answered by a second call.
AwaitProposerReturnRetrying ==
    /\ pc = "inAwaitProposer"
    /\ \E answer \in PubKeyAnswers :
         IF answer.err /\ Len(log) = 1
         THEN /\ log' = Append(Returned(log, "err"), [log[1] EXCEPT !.st = "pending"])
              /\ UNCHANGED <<pc, ret, pubKey>>
         ELSE IF answer.err
         THEN Fail(Returned(log, "err"), "awaitProposer error") /\ UNCHANGED pubKey
         ELSE /\ pc' = "verifyRandao"
              /\ pubKey' = answer.key
              /\ log' = ReturnedKey(log, answer.key)
              /\ UNCHANGED ret
    /\ UNCHANGED <<envVars, phase, registryVars, wiringVars, lookup, resp, req,
                   attestations, setsBySlot, doneSlots, subIdx>>

\* awaitProposerFunc returns.
AwaitProposerReturn ==
    /\ pc = "inAwaitProposer"
    /\ \E answer \in PubKeyAnswers :
         IF answer.err
         THEN Fail(Returned(log, "err"), "awaitProposer error") /\ UNCHANGED pubKey
         ELSE /\ pc' = "verifyRandao"
              /\ pubKey' = answer.key
              /\ log' = ReturnedKey(log, answer.key)
              /\ UNCHANGED ret
    /\ UNCHANGED <<envVars, phase, registryVars, wiringVars, lookup, resp, req,
                   attestations, setsBySlot, doneSlots, subIdx>>

\* The steps after the fan-out of sumbitRandaoDuty: awaitBlockFunc is entered.
EnterAwaitBlock(l) ==
    /\ pc' = "inAwaitBlock"
    /\ log' = Append(l, AwaitBlockCall(req.slot))
    /\ subIdx' = 0
    /\ UNCHANGED ret

\* verifyRandaoParSig, and on success the start of sumbitRandaoDuty: the
\* first subscriber is called with the randao set.
VerifyAndSubmitRandao ==
    /\ pc = "verifyRandao"
    /\ \E answer \in SlotsPerEpochAnswers, ok \in StepOutcomes :
         LET r == VerifyRandaoParSig(skipVerify, sharesByCoreKey, pubKey, req.slot,
                                     req.randao, answer, ok["hash"], ok["domain"])
             l == log \o r.calls
         IN IF r.err # "nil"
            THEN Fail(l, r.err) /\ UNCHANGED subIdx
            ELSE IF parSigDBFuncs = <<>>
            THEN EnterAwaitBlock(l)
            ELSE /\ pc' = "inStore"
                 /\ log' = Append(l, StoreCall(parSigDBFuncs, 1, NewRandaoDuty(req.slot),
                                               RandaoParSigSet(pubKey, req.randao, shareIdx)))
                 /\ subIdx' = 1
                 /\ UNCHANGED ret
    /\ UNCHANGED <<envVars, phase, registryVars, wiringVars, lookup, resp, req,
                   attestations, setsBySlot, doneSlots, pubKey>>

\* A randao fan-out that stops after the first subscriber.
RandaoStoreReturnFirstOnly ==
    /\ pc = "inStore"
    /\ req.op = "BeaconBlockProposal"
    /\ \E ok \in BOOLEAN :
         IF ~ok
         THEN Fail(Returned(log, "err"), "store error") /\ UNCHANGED subIdx
         ELSE EnterAwaitBlock(Returned(log, "ok"))
    /\ UNCHANGED <<envVars, phase, registryVars, wiringVars, lookup, resp, req,
                   attestations, setsBySlot, doneSlots, pubKey>>

\* The subscriber called for the randao set returns: on an error the request
\* returns it, otherwise the next subscriber is called, and after the last
\* one awaitBlockFunc is entered.
RandaoStoreReturn ==
    /\ pc = "inStore"
    /\ req.op = "BeaconBlockProposal"
    /\ \E ok \in BOOLEAN :
         LET call == log[Len(log)]
         IN IF ~ok
            THEN Fail(Returned(log, "err"), "store error") /\ UNCHANGED subIdx
            ELSE IF subIdx < Len(parSigDBFuncs)
            THEN /\ log' = Append(Returned(log, "ok"),
                                  StoreCall(parSigDBFuncs, subIdx + 1, call.duty, call.set))
                 /\ subIdx' = subIdx + 1
                 /\ UNCHANGED <<pc, ret>>
            ELSE EnterAwaitBlock(Returned(log, "ok"))
    /\ UNCHANGED <<envVars, phase, registryVars, wiringVars, lookup, resp, req,
                   attestations, setsBySlot, doneSlots, pubKey>>

\* An awaitBlockFunc return that is checked against the proposer's key.
AwaitBlockReturnComparingKeys ==
    /\ pc = "inAwaitBlock"
    /\ \E answer \in BlockAnswers :
         /\ resp' = [resp EXCEPT !.calls = <<UpstreamCall("awaitBlockFunc", <<req.slot>>, answer)>>]
         /\ IF answer.err
            THEN Fail(Returned(log, "err"), "awaitBlock error")
            ELSE IF answer.key # pubKey
            THEN Fail(Returned(log, "ok"), "mismatching proposer key")
            ELSE /\ pc' = "done"
                 /\ ret' = [err |-> "nil", block |-> answer.block]
                 /\ log' = Returned(log, "ok")
    /\ UNCHANGED <<envVars, phase, registryVars, wiringVars, lookup, req,
                   attestations, setsBySlot, doneSlots, subIdx, pubKey>>

\* awaitBlockFunc returns; its pubkey is dropped and its block returned.
\* The answer it gave is kept with the request's record.
AwaitBlockReturn ==
    /\ pc = "inAwaitBlock"
    /\ \E answer \in BlockAnswers :
         /\ resp' = [resp EXCEPT !.calls = <<UpstreamCall("awaitBlockFunc", <<req.slot>>, answer)>>]
         /\ IF answer.err
            THEN Fail(Returned(log, "err"), "awaitBlock error")
            ELSE /\ pc' = "done"
                 /\ ret' = [err |-> "nil", block |-> answer.block]
                 /\ log' = Returned(log, "ok")
    /\ UNCHANGED <<envVars, phase, registryVars, wiringVars, lookup, req,
                   attestations, setsBySlot, doneSlots, subIdx, pubKey>>

(* ------------------------------ queries ------------------------------ *)

\* The component is serving and no request is under way: it takes a query.
QueryReady == phase = "serving" /\ pc = "idle"

\* A query runs from its call to its return in one step: it makes at most
\* one call, to the beacon node or to awaitAttFunc, and waits for the answer.
QueryReturns(op, args, r) ==
    /\ req' = [NoReq EXCEPT !.op = op]
    /\ pc' = "done"
    /\ ret' = [err |-> r.err, block |-> 0]
    /\ resp' = [args |-> args, calls |-> r.calls, val |-> r.val]
    /\ UNCHANGED <<envVars, phase, registryVars, wiringVars, lookup,
                   attestations, setsBySlot, doneSlots, subIdx, pubKey, log>>

\* What awaitAttFunc may answer: an error, or attestation data.
AttestationDataAnswers ==
    {[err |-> TRUE, val |-> <<>>]}
        \cup {[err |-> FALSE, val |-> <<"data", sl, r>>] : sl \in Slots, r \in BlockRoots}

\* AttestationData(ctx, slot, committeeIndex): what awaitAttFunc answers.
AttestationData(slot, committeeIndex) ==
    /\ QueryReady
    /\ \E answer \in AttestationDataAnswers :
          QueryReturns("AttestationData", <<slot, committeeIndex>>,
                       [err |-> IF answer.err THEN "awaitAtt error" ELSE "nil",
                        calls |-> <<UpstreamCall("awaitAttFunc", <<slot, committeeIndex>>, answer)>>,
                        val |-> answer.val])

\* ProposerDuties: no proposer duties, and no call.
ProposerDuties(epoch, validatorIndices) ==
    /\ QueryReady
    /\ QueryReturns("ProposerDuties", <<epoch, validatorIndices>>,
                    [err |-> "nil", calls |-> <<>>, val |-> <<>>])

AttesterDuties(epoch, validatorIndices) ==
    /\ QueryReady
    /\ \E answer \in DutiesAnswers :
          QueryReturns("AttesterDuties", <<epoch, validatorIndices>>,
                       AttesterDutiesResult(hasLookups, sharesByKey, epoch, validatorIndices, answer))

Validators(stateID, validatorIndices) ==
    /\ QueryReady
    /\ \E answer \in ValidatorsAnswers :
          \E o \in Orders(DOMAIN answer.val) :
              QueryReturns("Validators", <<stateID, validatorIndices>>,
                           ValidatorsResult(hasLookups, sharesByKey, stateID, validatorIndices,
                                            answer, o))

ValidatorsByPubKey(stateID, pubshares) ==
    /\ QueryReady
    /\ \E answer \in ValidatorsAnswers :
          \E o \in Orders(DOMAIN answer.val) :
              QueryReturns("ValidatorsByPubKey", <<stateID, pubshares>>,
                           ValidatorsByPubKeyResult(hasLookups, sharesByKey, keysByShare, stateID,
                                                    pubshares, answer, o))

\* The request has returned; the component serves the next one.
Finish ==
    /\ pc = "done"
    /\ pc' = "idle"
    /\ req' = NoReq
    /\ attestations' = <<>>
    /\ setsBySlot' = EmptyMap
    /\ doneSlots' = {}
    /\ subIdx' = 0
    /\ pubKey' = KeyToCore(ZeroKey)
    /\ log' = <<>>
    /\ ret' = NoRet
    /\ resp' = NoResp
    /\ UNCHANGED <<envVars, phase, registryVars, wiringVars, lookup>>

Next ==
    \/ RegisterAwaitAttestation
    \/ RegisterPubKeyByAttestation
    \/ RegisterAwaitProposer
    \/ RegisterAwaitBeaconBlock
    \/ RegisterParSigDB
    \/ StartServing
    \/ \E n \in 0..MaxBatch : StartSubmitAttestations(n)
    \/ ProcessAttestation
    \/ AttStoreReturn
    \/ \E slot \in Slots, randao \in RandaoSigs : StartBeaconBlockProposal(slot, randao)
    \/ AwaitProposerReturn
    \/ VerifyAndSubmitRandao
    \/ RandaoStoreReturn
    \/ \E slot \in Slots : AttestationData(slot, 0)
    \/ \E epoch \in Epochs, indices \in IndexLists : ProposerDuties(epoch, indices)
    \/ \E epoch \in Epochs, indices \in IndexLists : AttesterDuties(epoch, indices)
    \/ \E indices \in IndexLists : Validators("head", indices)
    \/ \E pubshares \in ShortSeqs(ClientKeys) : ValidatorsByPubKey("head", pubshares)
    \/ AwaitBlockReturn
    \/ Finish

Spec == Init /\ [][Next]_vars

(* ----------------------- the insecure component ----------------------- *)

\* NewComponentInsecure(eth2Svc, shareIdx): skipVerify is set and the three
\* lookup functions are left nil.
InitInsecure ==
    /\ allPubSharesByKey = FixtureCluster
    /\ phase = "wiring"
    /\ shareIdx = FixtureShareIdx
    /\ skipVerify = TRUE
    /\ hasLookups = FALSE
    /\ sharesByCoreKey = EmptyMap
    /\ sharesByKey = EmptyMap
    /\ keysByShare = EmptyMap
    /\ inputFuncs = {}
    /\ parSigDBFuncs = <<>>
    /\ lookup = NoLookup
    /\ IdleRequest
    /\ OthersIdle

SpecInsecure == InitInsecure /\ [][Next]_vars

(* ------------------------ verifyParSig on its own --------------------- *)

\* The arguments verifyParSig is called with.
DutyTypes == {"attester", "randao"}

SigningRoots ==
    {MerkleEpochRoot(e) : e \in Epochs}
        \cup {AttDataRoot([slot |-> 1, index |-> 0, root |-> 0, target |-> 0])}

VerifiedKeys ==
    {KeyToCore(k) : k \in FixtureRoots \cup {ZeroKey, FixtureCluster[1][FixtureShareIdx]}}

VerifiedSigs ==
    {[signer |-> sg, msg |-> PrepSigningData(t, e, r)] :
        sg \in Signers, t \in DutyTypes, e \in Epochs, r \in SigningRoots} \cup {BadSig}

\* c.verifyParSig(ctx, typ, epoch, pubkey, sigRoot, sig) on a component of
\* either constructor: the calls it makes and what it returns.
CallVerifyParSig(typ, epoch, pubkey, sigRoot, sig, domainOk) ==
    /\ DOMAIN resp.args = {}
    /\ resp' = [args |-> [typ |-> typ, epoch |-> epoch, pubkey |-> pubkey,
                          sigRoot |-> sigRoot, sig |-> sig, domainOk |-> domainOk],
                calls |-> VerifyParSigCalls(skipVerify, sharesByCoreKey, typ, epoch, pubkey,
                                            sigRoot, sig, domainOk),
                val |-> VerifyParSig(skipVerify, sharesByCoreKey, typ, epoch, pubkey,
                                     sigRoot, sig, domainOk)]
    /\ UNCHANGED <<envVars, phase, registryVars, wiringVars, lookup,
                   pc, req, attestations, setsBySlot, doneSlots, subIdx, pubKey, log, ret>>

InitVerify == Init \/ InitInsecure

NextVerify ==
    \E typ \in DutyTypes, epoch \in Epochs, pubkey \in VerifiedKeys,
       sigRoot \in SigningRoots, sig \in VerifiedSigs, domainOk \in BOOLEAN :
        CallVerifyParSig(typ, epoch, pubkey, sigRoot, sig, domainOk)

SpecVerify == InitVerify /\ [][NextVerify]_vars

(* ============================== claims ================================ *)

\* Positions of the log holding a call of op.
Calls(op) == {j \in DOMAIN log : log[j].op = op}

InProposal == req.op = "BeaconBlockProposal"

InSubmit == req.op = "SubmitAttestations"

\* The errors randao verification returns.
RandaoVerificationErrors ==
    {"getting slots per epoch", "hash default epoch", "upstream error",
     "convert signature", "unknown public key", "invalid signature"}

(* C1: in BeaconBlockProposal the steps run in the order awaitProposer,    *)
(* randao verification, randao fan-out, awaitBeaconBlock: whenever         *)
(* awaitBlockFunc has been entered, awaitProposerFunc returned a key       *)
(* before, the randao was verified after that, and after that every        *)
(* registered subscriber was called with duty Randao(slot) and the         *)
(* one-entry set {proposer key: randao reveal with this peer's shareIdx}   *)
(* and returned without error, all before awaitBlockFunc was entered.      *)
C1_RandaoFanOutBeforeAwaitBlock ==
    \A b \in Calls("awaitBlock") :
        \E a \in 1..(b - 1), v \in 1..(b - 1) :
            /\ a < v
            /\ log[a].op = "awaitProposer" /\ log[a].st = "ok" /\ log[a].key = pubKey
            /\ log[v].op = "verifyParSig" /\ log[v].st = "ok"
            /\ \A n \in DOMAIN parSigDBFuncs :
                 \E k \in (v + 1)..(b - 1) :
                    /\ log[k].op = "store" /\ log[k].st = "ok"
                    /\ log[k].sub = parSigDBFuncs[n]
                    /\ log[k].duty = <<"randao", req.slot>>
                    /\ DOMAIN log[k].set = {pubKey}
                    /\ log[k].set[pubKey].kind = "randao"
                    /\ log[k].set[pubKey].sig = req.randao
                    /\ log[k].set[pubKey].shareIdx = shareIdx

\* awaitBlockFunc is entered with two subscribers registered.
C1_Witness ==
    /\ pc = "inAwaitBlock"
    /\ Len(parSigDBFuncs) >= 2
    /\ Cardinality(Calls("store")) >= 2

(* C2: BeaconBlockProposal short-circuits.  If awaitProposerFunc returns   *)
(* an error the call returns that error and no block, and nothing else is  *)
(* called (no upstream call, no verification, no subscriber, no            *)
(* awaitBlockFunc).  If the randao verification fails the call returns     *)
(* its error and no block, no subscriber is called and awaitBlockFunc is   *)
(* never entered.                                                          *)
C2_ProposalShortCircuits ==
    InProposal =>
        /\ (log[1].st = "err") =>
              /\ Len(log) = 1
              /\ pc = "done"
              /\ ret = [err |-> "awaitProposer error", block |-> 0]
        /\ (\E j \in DOMAIN log :
                log[j].op \in {"slotsPerEpoch", "verifyParSig"} /\ log[j].st = "err") =>
              /\ Calls("store") = {}
              /\ Calls("awaitBlock") = {}
              /\ pc = "done"
              /\ ret.err \in RandaoVerificationErrors
              /\ ret.block = 0
        /\ (pc = "done" /\ ret.err \in RandaoVerificationErrors) =>
              /\ Calls("store") = {}
              /\ Calls("awaitBlock") = {}
              /\ ret.block = 0

\* A proposal whose randao signature is invalid has returned, with
\* subscribers registered.
C2_Witness ==
    /\ InProposal
    /\ pc = "done"
    /\ ret.err = "invalid signature"
    /\ Len(parSigDBFuncs) >= 1

\* The errors one iteration of the batch loop returns.
AttestationErrors ==
    {"unexpected number of aggregation bits", "pubKeyByAtt error",
     "hash attestation data", "upstream error", "convert signature",
     "unknown public key", "invalid signature", "encode"}

\* The attestation at batch position n passed its pubkey resolution and its
\* verification, and both before every store call.
Passed(n) ==
    \E a \in DOMAIN log, v \in DOMAIN log :
        /\ a < v
        /\ log[a].op = "pubKeyByAtt" /\ log[a].idx = n /\ log[a].st = "ok"
        /\ log[v].op = "verifyParSig" /\ log[v].idx = n /\ log[v].st = "ok"
        /\ \A k \in Calls("store") : v < k

(* C3: within one SubmitAttestations call no subscriber is called until    *)
(* every attestation of the batch has been read and has passed the         *)
(* aggregation-bit check, pubkey resolution and verification; and once an  *)
(* attestation has failed, whatever its position, the request has ended    *)
(* with that error and no store call was made in it.                       *)
C3_NoStoreBeforeBatchPassed ==
    InSubmit =>
        /\ (Calls("store") # {}) =>
              /\ Len(attestations) = req.n
              /\ \A n \in 1..req.n :
                    Cardinality(attestations[n].bits) = 1 /\ Passed(n)
        /\ (\E j \in DOMAIN log :
                log[j].op \in {"pubKeyByAtt", "verifyParSig"} /\ log[j].st = "err") =>
              /\ Calls("store") = {}
              /\ pc = "done"
              /\ ret.err \in AttestationErrors
        /\ (pc = "done" /\ ret.err \in AttestationErrors) => Calls("store") = {}

\* The second attestation of a batch failed verification after the first
\* one had passed, with a subscriber registered.
C3_Witness ==
    /\ InSubmit
    /\ pc = "done"
    /\ Len(attestations) = 2
    /\ ret.err = "invalid signature"
    /\ DOMAIN setsBySlot # {}
    /\ Len(parSigDBFuncs) >= 1

(* C4: a batch with an attestation whose aggregation bits do not have      *)
(* exactly one bit set (none, or two or more) fails: when the loop reads   *)
(* that attestation the request ends with the aggregation-bit error,       *)
(* pubKeyByAttFunc is not called for that attestation and no subscriber    *)
(* is called.                                                              *)
C4_BadAggregationBitsFail ==
    InSubmit =>
        \A n \in DOMAIN attestations :
            Cardinality(attestations[n].bits) # 1 =>
                /\ pc = "done"
                /\ ret = [err |-> "unexpected number of aggregation bits", block |-> 0]
                /\ \A j \in Calls("pubKeyByAtt") : log[j].idx # n
                /\ Calls("store") = {}

\* The second attestation of a batch has two bits set, the first one has
\* passed, and a subscriber is registered.
C4_Witness ==
    /\ InSubmit
    /\ Len(attestations) = 2
    /\ Cardinality(attestations[2].bits) = 2
    /\ DOMAIN setsBySlot # {}
    /\ Len(parSigDBFuncs) >= 1

(* C5: each RegisterParSigDB appends a subscriber (the n-th registered     *)
(* sits at position n of parSigDBFuncs), and every set is delivered to     *)
(* the subscribers in registration order, synchronously: a store call      *)
(* begins only when every earlier call has returned without error; the     *)
(* call to the first subscriber opens the delivery of a duty's set, the    *)
(* call to subscriber n+1 directly follows the call to subscriber n for    *)
(* the same duty and set, and a call that returned without error is        *)
(* followed by the call to the next subscriber, if there is one.           *)
C5_FanOutInRegistrationOrder ==
    /\ \A n \in DOMAIN parSigDBFuncs : parSigDBFuncs[n] = n
    /\ \A j \in Calls("store") :
          /\ log[j].sub \in 1..Len(parSigDBFuncs)
          /\ \A k \in 1..(j - 1) : log[k].st = "ok"
          /\ (log[j].sub = 1) =>
                \A k \in 1..(j - 1) : ~(log[k].op = "store" /\ log[k].duty = log[j].duty)
          /\ (log[j].sub > 1) =>
                /\ log[j - 1].op = "store"
                /\ log[j - 1].sub = log[j].sub - 1
                /\ log[j - 1].duty = log[j].duty
                /\ log[j - 1].set = log[j].set
          /\ (log[j].st = "ok" /\ log[j].sub < Len(parSigDBFuncs)) =>
                /\ j < Len(log)
                /\ log[j + 1].op = "store"
                /\ log[j + 1].sub = log[j].sub + 1

\* The second subscriber is being called with a set the first one has
\* returned from.
C5_Witness ==
    /\ pc = "inStore"
    /\ Len(log) >= 2
    /\ log[Len(log)].sub = 2
    /\ log[Len(log)].st = "pending"
    /\ log[Len(log) - 1].sub = 1

\* The key pubKeyByAttFunc answered for the attestation at batch position n.
AnsweredKey(n) ==
    LET j == CHOOSE j \in Calls("pubKeyByAtt") : log[j].idx = n IN log[j].key

\* The batch positions whose attestation is of slot s, and the last of them
\* that resolved to the key k.
PositionsOf(s) == {n \in DOMAIN attestations : attestations[n].slot = s}

LastPositionOf(s, k) ==
    CHOOSE n \in PositionsOf(s) :
        /\ AnsweredKey(n) = k
        /\ \A m \in PositionsOf(s) : AnsweredKey(m) = k => m <= n

\* The core keys of the cluster's root keys, and of this peer's shares.
RootCoreKeys == {KeyToCore(k) : k \in DOMAIN allPubSharesByKey}

ShareCoreKeys == {KeyToCore(allPubSharesByKey[k][shareIdx]) : k \in DOMAIN allPubSharesByKey}

CallsKept ==
    /\ Len(log') >= Len(log)
    /\ \A j \in DOMAIN log :
          \/ log'[j] = log[j]
          \/ /\ j = Len(log)
             /\ log[j].st = "pending"
             /\ log'[j] = [log[j] EXCEPT !.st = log'[j].st, !.key = log'[j].key]

\* In the state: a store call that returned an error is the last call of
\* the request, which has ended with that error and no block.
StoreErrorEndsRequest ==
    \A j \in Calls("store") :
        log[j].st = "err" =>
            /\ j = Len(log)
            /\ pc = "done"
            /\ ret = [err |-> "store error", block |-> 0]
            /\ \A k \in 1..(j - 1) : log[k].st = "ok"

(* C7: when a subscriber returns an error during fan-out (of attestation   *)
(* sets or of the randao set) the request returns that single error and    *)
(* makes no further store call, and the calls already delivered are not    *)
(* undone: until the request has returned, every step keeps the calls      *)
(* made so far, so that what the subscribers observed is a prefix of the   *)
(* calls of the execution without the failure.                             *)
C7_StoreErrorAbortsAndKeepsPrefix ==
    [][StoreErrorEndsRequest' /\ (pc # "done" => CallsKept)]_vars

\* The second store call of a request returned an error after the first
\* one had been delivered.
C7_Witness ==
    /\ pc = "done"
    /\ ret.err = "store error"
    /\ Cardinality(Calls("store")) >= 2
    /\ log[Len(log)].st = "err"

Constructed == phase \in {"wiring", "serving"}

\* The shares of this peer, and the shares the other peers hold.
OwnShares == {allPubSharesByKey[k][shareIdx] : k \in DOMAIN allPubSharesByKey}

PeerShares(j) == {allPubSharesByKey[k][j] : k \in DOMAIN allPubSharesByKey}

AllShares == UNION {PeerShares(j) : j \in Peers}

\* Valid key material: this peer holds a different share for every root key.
ValidKeyMaterial ==
    \A k1, k2 \in DOMAIN allPubSharesByKey :
        k1 # k2 => allPubSharesByKey[k1][shareIdx] # allPubSharesByKey[k2][shareIdx]

(* C8: for a share that belongs to a known root key under a peer index     *)
(* other than this peer's shareIdx (and that is no share of this peer),    *)
(* getPubKeyFunc returns the zero-valued key and the error "mismatching    *)
(* validator client key share index, Mth key share submitted to Nth        *)
(* charon peer", never the unknown-share error.                            *)
C8_MismatchedShareIndex ==
    (Constructed /\ lookup.fn = "getPubKeyFunc") =>
        \A j \in Peers \ {shareIdx} :
            (\E k \in PeerShares(j) \ OwnShares : lookup.arg = KeyToETH2(k)) =>
                /\ lookup.val = KeyToETH2(ZeroKey)
                /\ lookup.err = "mismatching validator client key share index, Mth key share submitted to Nth charon peer"

(* C9: for every registry NewComponent builds from valid key material and  *)
(* every known root key K, getPubShareFunc(K) is this peer's share of K    *)
(* and getPubKeyFunc of that share is K again; in particular a root key    *)
(* that is its own share maps to itself both ways.                         *)
C9_RootForShareForRoundTrip ==
    (Constructed /\ ValidKeyMaterial) =>
        \A k \in DOMAIN allPubSharesByKey :
            LET share == GetPubShareFunc(sharesByKey, KeyToETH2(k))
                root == GetPubKeyFunc(keysByShare, share.val)
            IN /\ share = [val |-> KeyToETH2(allPubSharesByKey[k][shareIdx]), err |-> "nil"]
               /\ root = [val |-> KeyToETH2(k), err |-> "nil"]
               /\ (allPubSharesByKey[k][shareIdx] = k) =>
                     /\ share.val = KeyToETH2(k)
                     /\ GetPubKeyFunc(keysByShare, KeyToETH2(k)).val = KeyToETH2(k)

\* A registry of two validators was built from valid material and a root key
\* that is its own share was resolved through getPubKeyFunc.
C9_Witness ==
    /\ Constructed
    /\ ValidKeyMaterial
    /\ Cardinality(DOMAIN allPubSharesByKey) = 2
    /\ \E k \in DOMAIN allPubSharesByKey :
          /\ allPubSharesByKey[k][shareIdx] = k
          /\ lookup = [fn |-> "getPubKeyFunc", arg |-> KeyToETH2(k),
                       val |-> KeyToETH2(k), err |-> "nil"]

C11_WitnessFailed ==
    /\ phase = "failed"
    /\ Cardinality(DOMAIN allPubSharesByKey) = 2

(* C12: the reverse map keysByShare built by NewComponent is injective     *)
(* over the shares it is built from: two distinct shares never resolve to  *)
(* the same root key, and no entry of the input overwrites another, every  *)
(* root key being the answer for its own share.                            *)
C12_ReverseMapInjective ==
    Constructed =>
        /\ \A s1, s2 \in DOMAIN keysByShare :
              s1 # s2 => keysByShare[s1] # keysByShare[s2]
        /\ \A k \in DOMAIN allPubSharesByKey :
              GetPubKeyFunc(keysByShare, KeyToETH2(allPubSharesByKey[k][shareIdx])).val
                  = KeyToETH2(k)

(* --------------------------- verifyParSig ----------------------------- *)

\* verifyParSig has been called.
VerifyCalled == DOMAIN resp.args # {}

(* C14: with skipVerify = true, verifyParSig returns nil (Ok) for every    *)
(* duty type, epoch, pubkey, signing root and signature, at once: it       *)
(* makes no domain fetch, no signature conversion, no share lookup and no  *)
(* BLS check.                                                              *)
C14_SkipVerifyReturnsOk ==
    (VerifyCalled /\ skipVerify) => (resp.val = "nil" /\ resp.calls = <<>>)

\* On a component that skips verification, verifyParSig was called for an
\* unknown key with bytes that are no signature while the beacon node
\* answers no domain.
C14_Witness ==
    /\ VerifyCalled
    /\ skipVerify
    /\ resp.args.sig = BadSig
    /\ resp.args.pubkey = KeyToCore(ZeroKey)
    /\ ~resp.args.domainOk

\* The errors that reject the signature itself.
InvalidSignatureErrors == {"invalid signature", "convert signature"}

(* C15: with skipVerify = false, verifyParSig returns nil (Ok) only if     *)
(* the signing data was built from the upstream domain without error, the  *)
(* root key is known to the registry and the BLS check of the signature    *)
(* over the signing root against this peer's share of that key succeeded.  *)
(* Otherwise it returns the upstream error when the domain fetch failed,   *)
(* the unknown-key error only for a key the registry does not know, and    *)
(* an invalid-signature error (malformed bytes, or a failed BLS check)     *)
(* only for a signature that does not verify; a failed check is never Ok.  *)
C15_VerifyOkOnlyIfSignatureValid ==
    (VerifyCalled /\ ~skipVerify) =>
        LET a == resp.args
            known == \E k \in DOMAIN allPubSharesByKey : a.pubkey = KeyToCore(k)
            root == CHOOSE k \in DOMAIN allPubSharesByKey : a.pubkey = KeyToCore(k)
            valid == /\ known
                     /\ a.sig.signer = allPubSharesByKey[root][shareIdx]
                     /\ a.sig.msg = <<a.sigRoot, Domain(a.typ, a.epoch)>>
        IN /\ (resp.val = "nil") <=> (a.domainOk /\ valid)
           /\ (resp.val = "upstream error") <=> ~a.domainOk
           /\ (resp.val = "unknown public key") => ~known
           /\ (a.domainOk /\ ~known) => resp.val \in {"unknown public key"} \cup InvalidSignatureErrors
           /\ (resp.val \in InvalidSignatureErrors) => ~valid
           /\ (a.domainOk /\ known /\ ~valid) => resp.val \in InvalidSignatureErrors
           /\ resp.val \in {"nil", "upstream error", "unknown public key"} \cup InvalidSignatureErrors

\* verifyParSig rejected a signature another peer's share made over the
\* right message for a known root key.
C15_Witness ==
    /\ VerifyCalled
    /\ ~skipVerify
    /\ resp.args.domainOk
    /\ resp.args.pubkey = KeyToCore(1)
    /\ resp.args.sig.signer = allPubSharesByKey[1][shareIdx + 1]
    /\ resp.args.sig.msg = <<resp.args.sigRoot, Domain(resp.args.typ, resp.args.epoch)>>
    /\ resp.val = "invalid signature"

(* ----------------------- the insecure component ----------------------- *)

\* The errors verifyParSig returns.
VerifyErrors == {"upstream error", "convert signature", "unknown public key", "invalid signature"}

\* The error a request returns when the call of op returned an error.
ErrorOf(op) ==
    CASE op = "pubKeyByAtt" -> "pubKeyByAtt error"
      [] op = "awaitProposer" -> "awaitProposer error"
      [] op = "awaitBlock" -> "awaitBlock error"
      [] op = "store" -> "store error"
      [] op = "slotsPerEpoch" -> "getting slots per epoch"
      [] OTHER -> "none"

\* The errors raised outside verifyParSig end the request: a bad number of
\* aggregation bits, an error of pubKeyByAttFunc, awaitProposerFunc,
\* awaitBlockFunc or a subscriber, and the beacon node failing to answer
\* the slots per epoch.
OtherErrorsFire ==
    /\ InSubmit =>
          \A n \in DOMAIN attestations :
              Cardinality(attestations[n].bits) # 1 =>
                  /\ pc = "done"
                  /\ ret.err = "unexpected number of aggregation bits"
                  /\ Calls("store") = {}
    /\ \A j \in DOMAIN log :
          (log[j].st = "err" /\ log[j].op # "verifyParSig") =>
              /\ j = Len(log)
              /\ pc = "done"
              /\ ret.err = ErrorOf(log[j].op)

\* The statement of C16 as it stands: a key the registry does not know
\* never passes verification, whatever skipVerify says.
C16_OnlyInvalidSignatureSuppressed ==
    skipVerify =>
        /\ OtherErrorsFire
        /\ \A j \in Calls("verifyParSig") :
              log[j].st = "ok" =>
                  LET key == IF InSubmit THEN AnsweredKey(log[j].idx) ELSE pubKey
                  IN key \in DOMAIN sharesByCoreKey

(* C16: skipVerify = true suppresses every error of verifyParSig: on an    *)
(* insecure component no verification fails and no request returns an     *)
(* invalid-signature, unknown-key or domain-fetch error, a key unknown to  *)
(* the registry passing like any other.  The errors raised outside         *)
(* verifyParSig still fire in SubmitAttestations and BeaconBlockProposal:  *)
(* a bad aggregation-bit count, a failing slots-per-epoch query, and the   *)
(* errors of pubKeyByAttFunc, awaitProposerFunc, awaitBlockFunc and the    *)
(* subscribers.                                                            *)
C16_SkipVerifySuppressesVerifyErrors ==
    skipVerify =>
        /\ OtherErrorsFire
        /\ \A j \in Calls("verifyParSig") : log[j].st = "ok"
        /\ (InSubmit \/ InProposal) => ret.err \notin VerifyErrors

\* On an insecure component an attestation resolved to a key the registry
\* does not know was delivered to a subscriber.
C16_Witness ==
    /\ skipVerify
    /\ InSubmit
    /\ pc = "done"
    /\ ret.err = "nil"
    /\ Calls("store") # {}
    /\ \E j \in Calls("pubKeyByAtt") : log[j].key \notin DOMAIN sharesByCoreKey

\* The requests that translate keys.
InTranslation == req.op \in {"AttesterDuties", "Validators", "ValidatorsByPubKey"}

(* C17: a component built by the insecure constructor still translates     *)
(* keys: AttesterDuties, Validators and ValidatorsByPubKey called on it     *)
(* complete, returning translated keys, an unknown-key or unknown-share     *)
(* error, or the error of the beacon node, as on a component built by       *)
(* NewComponent; they never crash.                                          *)
C17_InsecureStillTranslates ==
    (skipVerify /\ pc = "done" /\ InTranslation) =>
        ret.err \in {"nil", "upstream error", "unknown public key", "unknown public share"}

(* ------------------------------ queries ------------------------------ *)

\* A query of kind op has returned.
Returned0(op) == pc = "done" /\ req.op = op

\* The validators v of an upstream answer converted: the same indices and
\* data, every root key replaced by this peer's share of it.
SharesFor(v) ==
    [i \in DOMAIN v |-> [v[i] EXCEPT !.pubkey = GetPubShareFunc(sharesByKey, v[i].pubkey).val]]

(* C18: AttesterDuties passes the epoch and the validator indices to the   *)
(* beacon node unchanged, in its only upstream call.  It returns the       *)
(* upstream duties in the same order and otherwise unchanged, every PubKey *)
(* rewritten from the root key to this peer's share of it; if a returned   *)
(* root key is unknown to the registry it returns the unknown-key error    *)
(* and no duties; an upstream error is returned as it is, with no duties.  *)
C18_AttesterDutiesTranslated ==
    (hasLookups /\ Returned0("AttesterDuties")) =>
        /\ Len(resp.calls) = 1
        /\ resp.calls[1].op = "AttesterDuties"
        /\ resp.calls[1].args = resp.args
        /\ LET answer == resp.calls[1].answer
               known == \A i \in DOMAIN answer.val : answer.val[i].pubkey \in DOMAIN sharesByKey
           IN /\ answer.err => (ret.err = "upstream error" /\ resp.val = <<>>)
              /\ (~answer.err /\ ~known) => (ret.err = "unknown public key" /\ resp.val = <<>>)
              /\ (~answer.err /\ known) =>
                    /\ ret.err = "nil"
                    /\ Len(resp.val) = Len(answer.val)
                    /\ \A i \in DOMAIN answer.val :
                          /\ resp.val[i].vidx = answer.val[i].vidx
                          /\ resp.val[i].pubkey = sharesByKey[answer.val[i].pubkey]
                          /\ resp.val[i].pubkey \in {KeyToETH2(k) : k \in OwnShares}

\* Two duties of two validators were returned with their keys translated.
C18_Witness ==
    /\ hasLookups
    /\ Returned0("AttesterDuties")
    /\ ret.err = "nil"
    /\ Len(resp.val) = 2
    /\ resp.val[1].pubkey # resp.val[2].pubkey

(* C19: ValidatorsByPubKey translates every input share to its root key    *)
(* with getPubKeyFunc, in input order, before it queries the beacon node,  *)
(* queries it once with exactly those root keys, and rewrites the result   *)
(* back to shares; if an input share is not one of this peer's shares      *)
(* (unknown, or held by another peer) the error of the translation is      *)
(* returned as it is and the beacon node is not queried at all.            *)
C19_ValidatorsByPubKeyTranslated ==
    (hasLookups /\ Returned0("ValidatorsByPubKey")) =>
        LET pubshares == resp.args[2]
            known == \A i \in DOMAIN pubshares : pubshares[i] \in DOMAIN keysByShare
        IN /\ ~known =>
                 /\ resp.calls = <<>>
                 /\ ret.err = "unknown public share"
                 /\ resp.val = EmptyMap
           /\ known =>
                 /\ Len(resp.calls) = 1
                 /\ resp.calls[1].op = "ValidatorsByPubKey"
                 /\ resp.calls[1].args[1] = resp.args[1]
                 /\ Len(resp.calls[1].args[2]) = Len(pubshares)
                 /\ \A i \in DOMAIN pubshares :
                       resp.calls[1].args[2][i] = keysByShare[pubshares[i]]
                 /\ LET answer == resp.calls[1].answer
                    IN /\ answer.err => ret.err = "upstream error"
                       /\ (~answer.err /\ ret.err = "nil") => resp.val = SharesFor(answer.val)

\* A request for two shares of this peer was answered with two validators.
C19_Witness ==
    /\ hasLookups
    /\ Returned0("ValidatorsByPubKey")
    /\ ret.err = "nil"
    /\ Len(resp.args[2]) = 2
    /\ resp.args[2][1] # resp.args[2][2]
    /\ Cardinality(DOMAIN resp.val) = 2

\* A request naming the share another peer holds has returned.
C19_WitnessMismatched ==
    /\ hasLookups
    /\ Returned0("ValidatorsByPubKey")
    /\ Len(resp.args[2]) = 2
    /\ resp.args[2][2] = KeyToETH2(allPubSharesByKey[1][shareIdx + 1])

(* C20: convertValidators round trip.  For an upstream validator set V     *)
(* whose root keys are all known, Validators and ValidatorsByPubKey return *)
(* a set with exactly the indices of V and the same data, every pubkey K   *)
(* replaced by getPubShareFunc(K), and getPubKeyFunc of every pubkey of    *)
(* the result is the pubkey of V again; if a root key of V is unknown the  *)
(* result is the unknown-key error and no set.                             *)
C20_ConvertValidatorsRoundTrip ==
    (/\ hasLookups
     /\ Returned0("Validators") \/ Returned0("ValidatorsByPubKey")
     /\ resp.calls # <<>>
     /\ ~resp.calls[1].answer.err) =>
        LET V == resp.calls[1].answer.val
            known == \A i \in DOMAIN V : V[i].pubkey \in DOMAIN sharesByKey
        IN /\ ~known => (ret.err = "unknown public key" /\ resp.val = EmptyMap)
           /\ known =>
                 /\ ret.err = "nil"
                 /\ DOMAIN resp.val = DOMAIN V
                 /\ \A i \in DOMAIN V :
                       /\ resp.val[i] = [V[i] EXCEPT !.pubkey = GetPubShareFunc(sharesByKey, @).val]
                       /\ resp.val[i].pubkey # V[i].pubkey
                       /\ GetPubKeyFunc(keysByShare, resp.val[i].pubkey)
                              = [val |-> V[i].pubkey, err |-> "nil"]

\* Validators returned two validators of different root keys.
C20_Witness ==
    /\ hasLookups
    /\ Returned0("Validators")
    /\ ret.err = "nil"
    /\ Cardinality(DOMAIN resp.val) = 2
    /\ resp.val[1].pubkey # resp.val[2].pubkey

(* ------------------------ blocking endpoints -------------------------- *)

\* The call of awaitBlockFunc in the log, and what it answered.
AwaitBlockCalls == Calls("awaitBlock")

BlockAnswer == resp.calls[1].answer

(* C21: the blocking endpoints return what their await callback produced,  *)
(* and not before it returns.  AttestationData(slot, committeeIdx) calls   *)
(* awaitAttFunc once with its own arguments and returns its value or its   *)
(* error.  A BeaconBlockProposal returns a block only after its call of    *)
(* awaitBlockFunc(slot) has returned, and whenever that call returns       *)
(* without error the request succeeds with exactly its block, whatever     *)
(* pubkey came with it; when it returns an error the request fails.        *)
C21_BlockingEndpointsReturnAwaited ==
    /\ Returned0("AttestationData") =>
          /\ Len(resp.calls) = 1
          /\ resp.calls[1].op = "awaitAttFunc"
          /\ resp.calls[1].args = resp.args
          /\ resp.val = resp.calls[1].answer.val
          /\ ret.err = IF resp.calls[1].answer.err THEN "awaitAtt error" ELSE "nil"
    /\ (InProposal /\ pc = "done" /\ ret.err = "nil") =>
          /\ AwaitBlockCalls = {Len(log)}
          /\ log[Len(log)].st = "ok"
    /\ (InProposal /\ pc = "done" /\ AwaitBlockCalls # {}) =>
          /\ AwaitBlockCalls = {Len(log)}
          /\ log[Len(log)].duty = <<"proposer", req.slot>>
          /\ Len(resp.calls) = 1
          /\ resp.calls[1].op = "awaitBlockFunc"
          /\ resp.calls[1].args = <<req.slot>>
          /\ log[Len(log)].st = IF BlockAnswer.err THEN "err" ELSE "ok"
          /\ BlockAnswer.err => (ret.err = "awaitBlock error" /\ ret.block = 0)
          /\ ~BlockAnswer.err => (ret.err = "nil" /\ ret.block = BlockAnswer.block)
    /\ (InProposal /\ pc # "done") => ret = NoRet

\* A proposal returned the block of awaitBlockFunc although the key that
\* came with the block is not the key awaitProposerFunc answered.
C21_Witness ==
    /\ InProposal
    /\ pc = "done"
    /\ ret.err = "nil"
    /\ ret.block = MaxBlock
    /\ BlockAnswer.block = MaxBlock
    /\ BlockAnswer.key # pubKey

\* AttestationData returned the data awaitAttFunc answered.
C21_WitnessAttestationData ==
    /\ Returned0("AttestationData")
    /\ ret.err = "nil"
    /\ resp.val # <<>>

(* ------------------------------ no retry ------------------------------ *)

\* The calls of op made for the attestation at batch position n.
CallsFor(op, n) == {j \in Calls(op) : log[j].idx = n}

(* C22: nothing is retried.  Within one request awaitAttFunc,              *)
(* awaitProposerFunc, awaitBlockFunc and eth2Cl.SlotsPerEpoch are called   *)
(* at most once, pubKeyByAttFunc and verifyParSig at most once for each    *)
(* attestation of the batch (once in a proposal), and each subscriber at   *)
(* most once for each duty's set.  A call that returned an error is the    *)
(* last call of the request, every call before it returned without error,  *)
(* and the request has ended with the error of that call.                  *)
C22_NothingIsRetried ==
    /\ \A op \in {"awaitProposer", "awaitBlock", "slotsPerEpoch"} : Cardinality(Calls(op)) <= 1
    /\ Returned0("AttestationData") => Len(resp.calls) = 1
    /\ InProposal => Cardinality(Calls("verifyParSig")) <= 1 /\ Calls("pubKeyByAtt") = {}
    /\ InSubmit =>
          /\ \A j \in Calls("pubKeyByAtt") \cup Calls("verifyParSig") :
                log[j].idx \in DOMAIN attestations
          /\ \A n \in DOMAIN attestations :
                /\ Cardinality(CallsFor("pubKeyByAtt", n)) <= 1
                /\ Cardinality(CallsFor("verifyParSig", n)) <= 1
    /\ \A i \in Calls("store"), j \in Calls("store") :
          (log[i].sub = log[j].sub /\ log[i].duty = log[j].duty) => i = j
    /\ \A j \in DOMAIN log :
          log[j].st = "err" =>
              /\ j = Len(log)
              /\ \A k \in 1..(j - 1) : log[k].st = "ok"
              /\ pc = "done"
              /\ ret.block = 0
              /\ IF log[j].op = "verifyParSig"
                 THEN ret.err \in VerifyErrors
                 ELSE ret.err = ErrorOf(log[j].op)

\* The verification of the second attestation of a batch failed and ended
\* the request: both attestations were resolved and verified once.
C22_Witness ==
    /\ InSubmit
    /\ pc = "done"
    /\ Len(attestations) = 2
    /\ Cardinality(Calls("pubKeyByAtt")) = 2
    /\ Cardinality(Calls("verifyParSig")) = 2
    /\ log[Len(log)].op = "verifyParSig"
    /\ log[Len(log)].st = "err"
    /\ ret.err \in VerifyErrors

\* A proposal ended with the error of awaitProposerFunc after one call.
C22_WitnessProposer ==
    /\ InProposal
    /\ pc = "done"
    /\ Len(log) = 1
    /\ ret.err = "awaitProposer error"

(* --------------------------- randao epoch ----------------------------- *)

\* The division of verifyRandaoParSig by a zero slotsPerEpoch.
DivideByZeroPanic == "panic: integer divide by zero"

\* The randao reveal a share makes for the epoch of slot under spe slots
\* per epoch: the epoch's root under the randao domain of that epoch.
RandaoMsg(slot, spe) ==
    PrepSigningData("randao", slot \div spe, MerkleEpochRoot(slot \div spe))

(* C23: randao verification in BeaconBlockProposal uses duty type Randao   *)
(* and epoch = slot / slotsPerEpoch, as the value hashed into the signing   *)
(* root and as the epoch of the domain: a reveal that passed was made by    *)
(* this peer's share of the proposer key over that signing data.  A failed  *)
(* fetch of slotsPerEpoch is returned before any verification or fan-out,   *)
(* and the computation is defined for every slot and every slotsPerEpoch    *)
(* the beacon node answers: once it answered, the request goes on to the    *)
(* hash and the verification and never ends in a panic.                     *)
C23_RandaoEpochDefined ==
    InProposal =>
        /\ \A j \in Calls("slotsPerEpoch") :
              /\ log[j].st = "err" =>
                    /\ pc = "done"
                    /\ ret = [err |-> "getting slots per epoch", block |-> 0]
                    /\ Calls("verifyParSig") = {}
                    /\ Calls("store") = {}
              /\ log[j].st = "ok" =>
                    /\ ret.err # DivideByZeroPanic
                    /\ Calls("verifyParSig") # {} \/ ret.err = "hash default epoch"
        /\ \A j \in Calls("verifyParSig") :
              log[j].st = "ok" =>
                  \E spe \in 1..MaxSlotsPerEpoch :
                      /\ req.randao.msg = RandaoMsg(req.slot, spe)
                      /\ pubKey \in DOMAIN sharesByCoreKey
                      /\ req.randao.signer = sharesByCoreKey[pubKey]

\* A proposal whose randao reveal passed verification is waiting for its
\* block.
C23_WitnessVerified ==
    /\ InProposal
    /\ pc = "inAwaitBlock"
    /\ \E j \in Calls("verifyParSig") : log[j].st = "ok"

(* ------------------- duplicates within one batch ---------------------- *)

\* No iteration of the batch loop has failed: every attestation read so far
\* was added to the set of its slot.
NoIterationFailed == ret.err \in {"none", "nil", "store error"}

\* The batch positions read so far whose attestation is of slot s and was
\* resolved to the key k.
PositionsOfKey(s, k) == {n \in PositionsOf(s) : AnsweredKey(n) = k}

\* The later one of two attestations of the same slot and key.
Max(S) == CHOOSE n \in S : \A m \in S : m <= n

(* C28: in SubmitAttestations the set of a slot holds one entry per root   *)
(* key.  When two attestations of a batch resolve to the same slot and     *)
(* key, the later one in batch order replaces the earlier one: the set     *)
(* built by the loop, and every set handed to a subscriber, holds for      *)
(* each key the encoding of the last attestation of that slot and key and  *)
(* nothing of an earlier one, and a request whose only irregularity is     *)
(* the duplicate returns no error.                                         *)
C28_LaterDuplicateReplacesEarlier ==
    (InSubmit /\ NoIterationFailed) =>
        /\ DOMAIN setsBySlot = {attestations[n].slot : n \in DOMAIN attestations}
        /\ \A s \in DOMAIN setsBySlot :
              /\ DOMAIN setsBySlot[s] = {AnsweredKey(n) : n \in PositionsOf(s)}
              /\ \A k \in DOMAIN setsBySlot[s] :
                    setsBySlot[s][k] =
                        EncodeAttestationParSignedData(attestations[Max(PositionsOfKey(s, k))],
                                                       shareIdx)
        /\ \A j \in Calls("store") : log[j].set = setsBySlot[log[j].duty[2]]
        /\ (pc = "done" /\ \A j \in Calls("store") : log[j].st = "ok") =>
              /\ ret.err = "nil"
              /\ Len(attestations) = req.n

\* Two different attestations of one slot resolved to one key; the request
\* returned without error and the subscriber got a set of one entry, the
\* second attestation.
C28_Witness ==
    /\ InSubmit
    /\ pc = "done"
    /\ ret.err = "nil"
    /\ Len(attestations) = 2
    /\ attestations[1].slot = attestations[2].slot
    /\ attestations[1] # attestations[2]
    /\ AnsweredKey(1) = AnsweredKey(2)
    /\ \E j \in Calls("store") :
          /\ Cardinality(DOMAIN log[j].set) = 1
          /\ log[j].set[AnsweredKey(2)] = EncodeAttestationParSignedData(attestations[2], shareIdx)
          /\ log[j].set[AnsweredKey(2)] # EncodeAttestationParSignedData(attestations[1], shareIdx)

(* ----------------------- the other packages --------------------------- *)

\* No validator API component is built while another package is looked at.
NoComponent ==
    /\ allPubSharesByKey = EmptyMap
    /\ phase = "new"
    /\ shareIdx = FixtureShareIdx
    /\ skipVerify = FALSE
    /\ hasLookups = FALSE
    /\ sharesByCoreKey = EmptyMap
    /\ sharesByKey = EmptyMap
    /\ keysByShare = EmptyMap
    /\ inputFuncs = {}
    /\ parSigDBFuncs = <<>>
    /\ lookup = NoLookup
    /\ IdleRequest

(* ---------------------- p2p: the stream handler ----------------------- *)

\* RegisterHandler has installed the handler; libp2p hands it streams.
InitStream == NoComponent /\ OthersIdle

SpecStream == InitStream /\ [][NextStream]_vars

(* C24: the stream handler of RegisterHandler closes the stream when it     *)
(* returns, on every path (relay error, read timeout, read error,           *)
(* unmarshal error, handler error, ok = false, marshal error, write error,  *)
(* success), and not while it reads, handles or writes.  handlerFunc is     *)
(* invoked at most once per stream and only after the whole request was     *)
(* read and unmarshalled without error; a response is written at most once  *)
(* and only when handlerFunc returned ok = true and no error and the        *)
(* response was marshalled.                                                 *)
C24_StreamAlwaysClosed ==
    \A s \in Streams :
        LET st == streams[s]
        IN /\ st.pc = "returned" <=> st.closed
           /\ st.calls <= 1
           /\ st.calls = 1 => (st.err = "nil" /\ st.valid)
           /\ st.writes <= 1
           /\ st.writes = 1 =>
                 /\ st.calls = 1
                 /\ st.res = [ok |-> TRUE, err |-> FALSE]
                 /\ st.marshalled
           /\ (st.pc = "returned" /\ st.err \in {"relay", "timeout", "other"}) =>
                 (st.calls = 0 /\ st.writes = 0)
           /\ (st.pc = "returned" /\ (st.res.err \/ ~st.res.ok)) => st.writes = 0

\* One stream was closed after its response was written, another one after
\* a relay error of the read, without a call of handlerFunc.
C24_Witness ==
    \E s, t \in Streams :
        /\ streams[s].pc = "returned"
        /\ streams[s].closed
        /\ streams[s].writes = 1
        /\ streams[s].wrote = "nil"
        /\ streams[t].pc = "returned"
        /\ streams[t].closed
        /\ streams[t].err = "relay"
        /\ streams[t].calls = 0

(* ---------------------- p2p: the relay reserver ----------------------- *)

InitRelay == NoComponent /\ OthersIdle

\* A hook that can take a step takes one, and a select that again and again
\* finds the context done at last takes that case.
SpecRelay ==
    /\ InitRelay
    /\ [][NextRelay]_vars
    /\ \A r \in Relays : WF_vars(HookRuns(r)) /\ SF_vars(ContextDone(r))

(* C25: the hook of NewRelayReserver reserves a relay circuit only until    *)
(* its context is closed: once the context is closed the hook eventually    *)
(* returns, from every state of its loop (no relay peer known yet,          *)
(* circuit.Reserve failing, waiting for the refresh timer).                 *)
C25_ReserverReturnsOnceClosed ==
    \A r \in Relays : (reserver.ctx = "closed") ~> (reserver.hooks[r].pc = "returned")

\* The context is closed while a hook waits for its refresh timer, and that
\* hook has returned.
C25_WitnessReturned ==
    /\ reserver.ctx = "closed"
    /\ \E r \in Relays : reserver.hooks[r].pc = "returned"

(* ------------------------- p2p: Sender.addResult ---------------------- *)

InitSender == NoComponent /\ OthersIdle

SpecSender == InitSender /\ [][NextSender]_vars

\* The peer's failing flag as the test reads it.
Failing(peerID) == LoadState(states, peerID).failing

\* The last n results added for the peer (all of them when there are fewer).
LastResults(peerID, n) ==
    LET h == results[peerID]
    IN {h[i] : i \in {j \in DOMAIN h : j > Len(h) - n}}

(* C26: Sender.addResult keeps a failing state per peer with hysteresis.   *)
(* A peer starts not failing; one failure makes it failing; while failing  *)
(* it returns to not failing only at the third success in a row since the  *)
(* last failure, and successes while not failing leave it not failing.     *)
(* In terms of the results added: a peer is failing exactly when one of    *)
(* its last three results is a failure, and each peer's state depends on   *)
(* its own results only.                                                   *)
C26_FailingWithHysteresis ==
    \A peerID \in SendPeers :
        /\ Failing(peerID) <=> "failure" \in LastResults(peerID, SenderHysteresis)
        /\ results[peerID] = <<>> => ~Failing(peerID)
        /\ peerID \in DOMAIN states <=> results[peerID] # <<>>

\* The sequence of the test up to the recovery: failure, failure and three
\* successes leave the peer not failing, the other peer failing meanwhile.
C26_Witness ==
    /\ results["test"] = <<"failure", "failure", "nil", "nil", "nil">>
    /\ ~Failing("test")
    /\ Failing("other")

\* Two successes after a failure leave the peer failing.
C26_WitnessStillFailing ==
    /\ results["test"] = <<"failure", "nil", "nil">>
    /\ Failing("test")

(* --------------------------- tbls: impl ------------------------------- *)

InitTbls == NoComponent /\ OthersIdle

SpecTbls == InitTbls /\ [][NextTbls]_vars

\* The goroutines about to read impl.
Readers == {g \in Goroutines : goroutines[g].pc = "read"}

(* C27: the implementation pointer is guarded by its mutex.  Every access   *)
(* to impl, the write of SetImplementation and the read of every           *)
(* package-level function, is made by the goroutine that holds implLock,    *)
(* so that no read is concurrent with the write and a function only ever    *)
(* sees an implementation that was set.                                     *)
C27_ImplGuardedByLock ==
    /\ \A g \in Readers \cup Writers : implLock = g
    /\ Readers = {} \/ Writers = {}
    /\ \A g \in Goroutines : goroutines[g].seen \in Implementations \cup {"none"}

\* SetImplementation writes impl while it holds implLock.
C27_WitnessWriterHoldsLock ==
    \E g \in Writers : implLock = g

=============================================================================
